---- MODULE Spec2Model ----
(***************************************************************************)
(* Budget-constrained extraction pipeline of sential:                      *)
(*   core/processing.py        process_files,                              *)
(*                             process_readable_files_for_category         *)
(*   core/ctags_extraction.py  extract_ctags_for_source_files, _run_ctags  *)
(*   core/tokens.py            TokenLimits, PooledTokenBudget              *)
(*   core/file_io.py           FilesystemFileReader                        *)
(*   core/categorization.py    calculate_significance                      *)
(*                                                                         *)
(* Text is a TLA+ string.  A path is the sequence of its parts.  The       *)
(* members of FileCategory are represented by their values.                *)
(***************************************************************************)
EXTENDS Integers, Sequences, FiniteSets, TLC

VARIABLES
    entry,                \* the function that was called from outside
    pc,                   \* position of the call in the code
    files_by_category,    \* process_files argument (its lists are sorted in place)
    disk,                 \* file system: absolute path -> what is on disk
    tagdb,                \* tagging tool: absolute path -> lines it prints for that file
    limits,               \* TokenLimits
    initial_allocations,  \* PooledTokenBudget.initial_allocations
    pool,                 \* PooledTokenBudget.pool
    category_index,       \* position of `for category in processing_order`
    files,                \* the list handed to the running extractor
    status,               \* the CategoryProcessedFiles being filled
    status_results,       \* process_files result
    file_index,           \* position of the loop over files (readable extractor)
    start,                \* extract_ctags_for_source_files: start
    processed_files,      \* extract_ctags_for_source_files: processed_files
    processed_index,      \* position of `for file in processed_files`
    budget_exhausted,     \* extract_ctags_for_source_files: budget_exhausted
    list_fully_processed, \* extract_ctags_for_source_files: list_fully_processed
    stdout_lines,         \* _run_ctags called alone: the lines of process.stdout
    run_result,           \* _run_ctags called alone: the returned pair
    log,                  \* history: budget, append and tagging-tool calls, in order
    arg_category,         \* _run_ctags called alone: category
    arg_language,         \* calculate_significance called alone: language
    arg_file_path,        \* calculate_significance called alone: file_path
    arg_file_paths,       \* categorize_files called alone: file_paths
    display,              \* a RichProgressDisplay used alone, and rich's state
    input_mapping         \* history: files_by_category as process_files got it

vars == <<entry, pc, files_by_category, disk, tagdb, limits, initial_allocations,
          pool, category_index, files, status, status_results, file_index,
          start, processed_files, processed_index, budget_exhausted,
          list_fully_processed, stdout_lines, run_result, log, arg_category,
          arg_language, arg_file_path, arg_file_paths, display,
          input_mapping>>

----------------------------------------------------------------------------
(* Bounds of the model *)

\* TokenLimits.max_total of the runs explored
MaxTotal == 16
\* batch size passed to the tagging tool (`limit`)
BatchLimit == 2
\* longest list handed to process_readable_files_for_category called alone
MaxReadable == 3
\* longest list handed to extract_ctags_for_source_files called alone
MaxSource == 3
\* longest tagging-tool output handed to _run_ctags called alone
MaxLines == 3
\* most parent directories of a path handed to calculate_significance
MaxDirs == 2
\* most calls made on a PooledTokenBudget used alone
MaxCalls == 3
\* largest count passed to can_afford and spend of a budget used alone
MaxSpend == 2

----------------------------------------------------------------------------
(* core/models.py *)

CONTEXT == "context_file"
MANIFEST == "manifest_file"
SIGNAL == "signal_file"
SOURCE == "source_file"
CHAPTER_FILE == "chapter_file"
UNKNOWN == "generic_file"

FileCategory == {CONTEXT, MANIFEST, SIGNAL, SOURCE, CHAPTER_FILE, UNKNOWN}

None == "<None>"

\* FileMetadata(file_path, category, score); depth is computed in __post_init__
FileMetadata(file_path, category, score) ==
    [file_path |-> file_path, category |-> category, score |-> score,
     depth |-> Len(file_path)]

ProcessedFile(path, type, content) ==
    [path |-> path, type |-> type, content |-> content]

CategoryProcessedFiles(category) == [category |-> category, files |-> <<>>]

Ctag(path, kind, name) == [path |-> path, kind |-> kind, name |-> name]

----------------------------------------------------------------------------
(* pathlib *)

Root == <<"repo">>

RECURSIVE PathStr(_)
\* str(path): the parts joined by "/"
PathStr(p) ==
    IF Len(p) = 0 THEN "."
    ELSE IF Len(p) = 1 THEN p[1]
    ELSE p[1] \o "/" \o PathStr(Tail(p))

\* root / file_path
FullPath(root, file_path) == root \o file_path

----------------------------------------------------------------------------
(* core/tokens.py *)

\* TiktokenCounter.count, the encoder yielding one token per character
TokenCount(text) == IF text = "" THEN 0 ELSE Len(text)

\* int(max_total * ratio), the ratio being num/den
Allocation(max_total, ratio) == (max_total * ratio.num) \div ratio.den

\* PooledTokenBudget.__init__
InitialAllocations(l) ==
    [cat \in DOMAIN l.ratios |-> Allocation(l.max_total, l.ratios[cat])]

\* mutant: a category without ratio is given one token
AllocationOf_default_one(allocs, category) ==
    IF category \in DOMAIN allocs THEN allocs[category] ELSE 1

\* self.initial_allocations.get(category, 0)
AllocationOf(allocs, category) ==
    IF category \in DOMAIN allocs THEN allocs[category] ELSE 0

\* mutant: a budget per category, the pool set instead of increased
StartCategory_siloed(p, allocs, category) == AllocationOf(allocs, category)

\* PooledTokenBudget.start_category: the new pool
StartCategory(p, allocs, category) == p + AllocationOf(allocs, category)

\* mutant: a count one above the pool is afforded
CanAfford_off_by_one(p, count) == p + 1 >= count

\* PooledTokenBudget.can_afford
CanAfford(p, count) == p >= count

\* mutant: the pool is kept from going below zero
Spend_clamped(p, count) == IF p - count < 0 THEN 0 ELSE p - count

\* PooledTokenBudget.spend: the new pool
Spend(p, count) == p - count

----------------------------------------------------------------------------
(* core/processing.py: the sort of process_files *)

\* mutant: two categories exchanged
processing_order_swapped == <<MANIFEST, CONTEXT, SIGNAL, SOURCE>>

processing_order == <<CONTEXT, MANIFEST, SIGNAL, SOURCE>>

\* mutant: the depth not negated
SortKey_depth_descending(file_meta) == <<file_meta.score, file_meta.depth>>

\* key=lambda file_meta: (file_meta.score, -file_meta.depth)
SortKey(file_meta) == <<file_meta.score, -file_meta.depth>>

\* comparison of two key tuples: a > b
KeyGreater(a, b) == a[1] > b[1] \/ (a[1] = b[1] /\ a[2] > b[2])

\* mutant: a file whose key the list already holds is dropped
InsertSorted_unique_keys(s, x) ==
    IF \E i \in 1..Len(s) : SortKey(s[i]) = SortKey(x) THEN s
    ELSE LET n == Cardinality({i \in 1..Len(s) :
                                  ~KeyGreater(SortKey(x), SortKey(s[i]))})
         IN SubSeq(s, 1, n) \o <<x>> \o SubSeq(s, n + 1, Len(s))

RECURSIVE InsertSorted(_, _)
\* x placed behind every element whose key is not smaller than its own
InsertSorted(s, x) ==
    IF s = <<>> THEN <<x>>
    ELSE IF KeyGreater(SortKey(x), SortKey(Head(s))) THEN <<x>> \o s
    ELSE <<Head(s)>> \o InsertSorted(Tail(s), x)

RECURSIVE SortFiles(_)
\* list.sort(key=..., reverse=True): descending by key, stable
SortFiles(s) ==
    IF s = <<>> THEN <<>>
    ELSE InsertSorted(SortFiles(SubSeq(s, 1, Len(s) - 1)), s[Len(s)])

----------------------------------------------------------------------------
(* core/file_io.py *)

\* what a path can be on disk: a file that "binary" describes has its first
\* null byte at position null_at, a "text" file has none
DiskKinds == {"missing", "text", "binary", "unopenable", "ioerror"}

\* the number of leading bytes _is_binary_file looks at
ChunkSize == 1024

\* mutant: the existence of the path is not checked
PathExists_always(d, full_path) == TRUE

\* full_path.exists()
PathExists(d, full_path) == d[full_path].kind # "missing"

\* mutant: no file is taken for binary
IsBinaryFile_never(d, full_path) == FALSE

\* FilesystemFileReader._is_binary_file
IsBinaryFile(d, full_path) ==
    IF d[full_path].kind = "unopenable" THEN TRUE
    ELSE d[full_path].kind = "binary" /\ d[full_path].null_at <= ChunkSize

\* FilesystemFileReader.read_file: raised is TRUE when FileReadError is raised
ReadFile(d, full_path) ==
    IF d[full_path].kind = "missing" THEN [raised |-> FALSE, content |-> ""]
    ELSE IF IsBinaryFile(d, full_path) THEN [raised |-> FALSE, content |-> ""]
    ELSE IF d[full_path].kind = "ioerror" THEN [raised |-> TRUE, content |-> ""]
    ELSE [raised |-> FALSE, content |-> d[full_path].content]

----------------------------------------------------------------------------
(* core/ctags_extraction.py: _run_ctags and its helpers *)

CTAGS_KINDS == {"class", "method", "function", "struct", "enum", "union",
                "interface", "typedef", "type", "namespace", "module", "package"}

\* the path of an absent or empty "path" field
NoPath == <<>>

\* a field whose JSON value is an array
JsonList == "<list>"

\* a line of process.stdout:
\*   shape "eof"       the empty string
\*   shape "blank"     only whitespace
\*   shape "nonjson"   text json.loads rejects
\*   shape "nonobject" JSON that is not an object (array, number, string, null)
\*   shape "object"    a JSON object; an absent field is None
Line(shape, path, kind, name) ==
    [shape |-> shape, path |-> path, kind |-> kind, name |-> name]

TagLine(path, kind, name) == Line("object", path, kind, name)

\* `not value` for a string field
Falsy(value) == value = None \/ value = ""

\* what _parse_tag_line does: it returns ctag (<<>> stands for None, <<c>>
\* for the Ctag c) or lets an exception escape (raised)
ParseResult(raised, ctag) == [raised |-> raised, ctag |-> ctag]

\* mutant: the kind of a tag is not checked against CTAGS_KINDS
ParseTagLine_any_kind(line) ==
    IF line.shape = "nonjson" THEN ParseResult(FALSE, <<>>)
    ELSE IF line.shape = "nonobject" THEN ParseResult(TRUE, <<>>)
    ELSE IF line.path = NoPath \/ Falsy(line.name)
         THEN ParseResult(FALSE, <<>>)
    ELSE ParseResult(FALSE, <<Ctag(line.path, line.kind, line.name)>>)

\* _parse_tag_line.  Only json.JSONDecodeError is caught: tag.get on a value
\* that is not an object raises AttributeError, and `kind not in CTAGS_KINDS`
\* on an array raises TypeError (reached when path and name are truthy).
ParseTagLine(line) ==
    IF line.shape = "nonjson" THEN ParseResult(FALSE, <<>>)
    ELSE IF line.shape = "nonobject" THEN ParseResult(TRUE, <<>>)
    ELSE IF line.path = NoPath \/ Falsy(line.name)
         THEN ParseResult(FALSE, <<>>)
    ELSE IF line.kind = JsonList THEN ParseResult(TRUE, <<>>)
    ELSE IF line.kind \notin CTAGS_KINDS THEN ParseResult(FALSE, <<>>)
    ELSE ParseResult(FALSE, <<Ctag(line.path, line.kind, line.name)>>)

\* format_tag
format_tag(kind, name) == kind \o " " \o name

RECURSIVE Join(_, _)
\* sep.join(strings)
Join(sep, strings) ==
    IF strings = <<>> THEN ""
    ELSE IF Len(strings) = 1 THEN strings[1]
    ELSE strings[1] \o sep \o Join(sep, Tail(strings))

\* _get_rel_path_str_from_str
RelPathStr(root, full_path) ==
    PathStr(SubSeq(full_path, Len(root) + 1, Len(full_path)))

\* the ProcessedFile appended for the group being closed
GroupFile(root, st) ==
    ProcessedFile(RelPathStr(root, st.current_file_path), SOURCE,
                  Join("\n", st.current_file_tags))

\* mutant: the index counts from zero in every batch
RunCtagsStart_from_zero(start_index) ==
    [current_file_path |-> NoPath, current_file_tags |-> <<>>,
     processed_files |-> <<>>, current_index |-> 0,
     returned |-> FALSE, raised |-> FALSE]

\* locals of _run_ctags before the first line is read
RunCtagsStart(start_index) ==
    [current_file_path |-> NoPath, current_file_tags |-> <<>>,
     processed_files |-> <<>>, current_index |-> start_index,
     returned |-> FALSE, raised |-> FALSE]

\* one iteration of `for line in process.stdout`
RunCtagsLine(root, st, line) ==
    IF st.returned \/ st.raised THEN st
    ELSE IF line.shape = "eof" THEN [st EXCEPT !.returned = TRUE]
    ELSE IF line.shape = "blank" THEN st
    ELSE LET parsed == ParseTagLine(line) IN
         IF parsed.raised THEN [st EXCEPT !.raised = TRUE]
         ELSE IF parsed.ctag = <<>> THEN st
         ELSE LET ctag == parsed.ctag[1]
                  tag == format_tag(ctag.kind, ctag.name) IN
              IF ctag.path # st.current_file_path
              THEN [st EXCEPT
                      !.processed_files =
                          IF st.current_file_path # NoPath
                          THEN Append(@, GroupFile(root, st)) ELSE @,
                      !.current_file_path = ctag.path,
                      !.current_file_tags = <<tag>>,
                      !.current_index = @ + 1]
              ELSE [st EXCEPT !.current_file_tags = Append(@, tag)]

RECURSIVE RunCtagsLoop(_, _, _)
\* the whole loop over the lines read
RunCtagsLoop(root, st, lines) ==
    IF lines = <<>> THEN st
    ELSE RunCtagsLoop(root, RunCtagsLine(root, st, Head(lines)), Tail(lines))

\* mutant: the files read before the error are returned
OnSubprocessError_partial(st) ==
    [ok |-> TRUE, files |-> st.processed_files, next |-> st.current_index,
     raised |-> FALSE]

\* lines 230-231: `except (OSError, subprocess.SubprocessError)`
OnSubprocessError(st) ==
    [ok |-> FALSE, files |-> <<>>, next |-> st.current_index, raised |-> FALSE]

\* mutant: the group open at the end of the output is not appended
RunCtags_no_final_group(root, lines, start_index, fail_at) ==
    LET read == IF fail_at < 0 THEN lines ELSE SubSeq(lines, 1, fail_at)
        st == RunCtagsLoop(root, RunCtagsStart(start_index), read)
    IN IF st.raised
       THEN [ok |-> FALSE, files |-> <<>>, next |-> st.current_index,
             raised |-> TRUE]
       ELSE IF st.returned \/ fail_at >= 0
       THEN [ok |-> FALSE, files |-> <<>>, next |-> st.current_index,
             raised |-> FALSE]
       ELSE [ok |-> TRUE, files |-> st.processed_files,
             next |-> st.current_index, raised |-> FALSE]

\* mutant: `break` in place of the return, so that the groups read so far
\* are returned
OnEof_break(root, st) ==
    [ok |-> TRUE,
     files |-> IF st.current_file_path # NoPath
               THEN Append(st.processed_files, GroupFile(root, st))
               ELSE st.processed_files,
     next |-> st.current_index, raised |-> FALSE]

\* lines 194-195: `return (None, current_index)` on an empty string
OnEof(root, st) ==
    [ok |-> FALSE, files |-> <<>>, next |-> st.current_index, raised |-> FALSE]

\* _run_ctags: the returned pair; ok = FALSE stands for a None file list.
\* fail_at < 0: no OSError/SubprocessError; otherwise the error is raised
\* after fail_at lines were read (0: the launch itself fails).
\* raised: an exception other than those two left the function, which then
\* returns nothing.
RunCtags(root, lines, start_index, fail_at) ==
    LET read == IF fail_at < 0 THEN lines ELSE SubSeq(lines, 1, fail_at)
        st == RunCtagsLoop(root, RunCtagsStart(start_index), read)
    IN IF st.raised
       THEN [ok |-> FALSE, files |-> <<>>, next |-> st.current_index,
             raised |-> TRUE]
       ELSE IF st.returned THEN OnEof(root, st)
       ELSE IF fail_at >= 0 THEN OnSubprocessError(st)
       ELSE [ok |-> TRUE,
             files |-> IF st.current_file_path # NoPath
                       THEN Append(st.processed_files, GroupFile(root, st))
                       ELSE st.processed_files,
             next |-> st.current_index, raised |-> FALSE]

\* islice(files, start, stop) as absolute paths: the batch of one invocation
BatchPaths(root, fs, start_index, limit) ==
    [k \in 1..(IF Len(fs) - start_index < limit
               THEN (IF Len(fs) > start_index THEN Len(fs) - start_index ELSE 0)
               ELSE limit)
       |-> FullPath(root, fs[start_index + k].file_path)]

RECURSIVE TaggerOutput(_, _)
\* the tagging tool (--sort=no): the lines of each file, in command-line order
TaggerOutput(db, paths) ==
    IF paths = <<>> THEN <<>>
    ELSE db[Head(paths)] \o TaggerOutput(db, Tail(paths))

----------------------------------------------------------------------------
(* models.py, constants.py: the languages and their heuristics *)

PY == "Python"
JS == "JavaScript/TypeScript"
JAVA == "Java"
CS == "C#"
GO == "GO"
CPP == "C/C++"

SupportedLanguage == {PY, JS, JAVA, CS, GO, CPP}

\* LANGUAGES_HEURISTICS[SupportedLanguage.PY]
HeuristicsPY ==
    [manifests |-> {"requirements.txt", "pyproject.toml", "setup.py",
                    "pipfile", "tox.ini"},
     extensions |-> {".py", ".pyi"},
     signals |-> {"__init__", "__main__", "main", "app", "wsgi", "asgi",
                  "manage", "run", "application", "server"},
     ignore_dirs |-> {"tests", "test", "mocks", "examples", "benchmarks",
                      "scripts", "htmlcov", "docs"}]

\* LANGUAGES_HEURISTICS[SupportedLanguage.JS]
HeuristicsJS ==
    [manifests |-> {"package.json", "deno.json", "yarn.lock",
                    "pnpm-lock.yaml", "next.config.js", "vite.config.js",
                    "tsconfig.json"},
     extensions |-> {".js", ".jsx", ".ts", ".tsx", ".mjs", ".cjs", ".vue",
                     ".velte", ".astro"},
     signals |-> {"index", "main", "app", "server", "entry", "bootstrap",
                  "start"},
     ignore_dirs |-> {"tests", "__tests__", "mocks", "stories", "examples",
                      "e2e", "cypress", "docs", "spec"}]

\* LANGUAGES_HEURISTICS[SupportedLanguage.JAVA]
HeuristicsJAVA ==
    [manifests |-> {"pom.xml", "build.gradle", "build.gradle.kts",
                    "settings.gradle", "mvnw", "gradlew"},
     extensions |-> {".java", ".kt", ".scala", ".groovy"},
     signals |-> {"main", "application", "app"},
     ignore_dirs |-> {"test", "tests", "mocks", "examples", "samples",
                      "docs", "it"}]

\* LANGUAGES_HEURISTICS[SupportedLanguage.CS]
HeuristicsCS ==
    [manifests |-> {".csproj", ".sln", ".fsproj", ".vbproj", "global.json",
                    "nuget.config"},
     extensions |-> {".cs", ".fs", ".vb", ".cshtml", ".razor"},
     signals |-> {"program", "startup", "app", "main", "module1"},
     ignore_dirs |-> {"tests", "test", "mocks", "examples", "spec",
                      "samples", "TestResults"}]

\* LANGUAGES_HEURISTICS[SupportedLanguage.GO]
HeuristicsGO ==
    [manifests |-> {"go.mod", "go.sum", "go.work", "main.go"},
     extensions |-> {".go"},
     signals |-> {"main", "server", "app", "cmd", "doc"},
     ignore_dirs |-> {"tests", "test", "examples", "vendor", "testdata",
                      "mocks", "bench"}]

\* LANGUAGES_HEURISTICS[SupportedLanguage.CPP]
HeuristicsCPP ==
    [manifests |-> {"cmakelists.txt", "makefile", "configure.ac",
                    "meson.build", "conanfile.txt", "vcpkg.json",
                    ".gitmodules"},
     extensions |-> {".c", ".cpp", ".h", ".hpp", ".cc", ".hh", ".cxx",
                     ".hxx", ".m", ".mm"},
     signals |-> {"main", "app", "application"},
     ignore_dirs |-> {"tests", "test", "mocks", "examples", "samples",
                      "third_party", "vendor", "external"}]

LANGUAGES_HEURISTICS ==
    [l \in SupportedLanguage |->
        CASE l = PY   -> HeuristicsPY
          [] l = JS   -> HeuristicsJS
          [] l = JAVA -> HeuristicsJAVA
          [] l = CS   -> HeuristicsCS
          [] l = GO   -> HeuristicsGO
          [] l = CPP  -> HeuristicsCPP]

UNIVERSAL_CONTEXT_FILES ==
    {"readme.md", "readme.txt", "architecture.md", "contributing.md",
     "design.md", "claude.md", ".cursorrules", ".windsurfrules",
     ".env.example", ".env.template", "docker-compose.yml", "dockerfile",
     "makefile", "justfile", "rakefile", "procfile"}

----------------------------------------------------------------------------
(* str and pathlib operations of FileMetadata.__post_init__ *)

\* str.lower() on the names the model uses that hold an upper-case letter;
\* every other name of the model is in lower case already
LowerOf ==
    ("TESTRESULTS" :> "testresults") @@
    ("__TESTS__" :> "__tests__") @@
    ("BENCH" :> "bench") @@
    ("BENCHMARKS" :> "benchmarks") @@
    ("CYPRESS" :> "cypress") @@
    ("DOCS" :> "docs") @@
    ("E2E" :> "e2e") @@
    ("EXAMPLES" :> "examples") @@
    ("EXTERNAL" :> "external") @@
    ("HTMLCOV" :> "htmlcov") @@
    ("IT" :> "it") @@
    ("MOCKS" :> "mocks") @@
    ("SAMPLES" :> "samples") @@
    ("SCRIPTS" :> "scripts") @@
    ("SPEC" :> "spec") @@
    ("STORIES" :> "stories") @@
    ("TEST" :> "test") @@
    ("TESTDATA" :> "testdata") @@
    ("TESTS" :> "tests") @@
    ("THIRD_PARTY" :> "third_party") @@
    ("VENDOR" :> "vendor") @@
    ("TestResults" :> "testresults") @@
    ("Tests" :> "tests") @@
    ("README" :> "readme") @@
    ("Makefile" :> "makefile") @@
    ("Dockerfile" :> "dockerfile") @@
    ("CMakeLists" :> "cmakelists") @@
    ("LICENSE" :> "license") @@
    ("Main" :> "main") @@
    (".PY" :> ".py") @@
    ("App" :> "app") @@
    ("Application" :> "application") @@
    ("Program" :> "program") @@
    ("Utils" :> "utils")

\* str.lower()
Lower(s) == IF s \in DOMAIN LowerOf THEN LowerOf[s] ELSE s

\* a relative path: the parent directories, and the file name split by
\* pathlib into stem and suffix (suffix "" for a name without a dot or with
\* a leading dot only)
PurePath(parents, stem, suffix) ==
    [parents |-> parents, stem |-> stem, suffix |-> suffix]

\* file_path.name
PathName(file_path) == file_path.stem \o file_path.suffix

\* file_path.parts
PathParts(file_path) == file_path.parents \o <<PathName(file_path)>>

\* the lower-case names of the model that begin with "readme"
ReadmeNames == {"readme", "readme.md", "readme.txt", "readme.rst", "readme.py"}

\* name_lower.startswith("readme")
StartsWithReadme(name_lower) == name_lower \in ReadmeNames

\* the attributes FileMetadata.__post_init__ derives from the path
DerivedAttributes(file_path) ==
    [name_lower |-> Lower(file_path.stem) \o Lower(file_path.suffix),
     suffix_lower |-> Lower(file_path.suffix),
     stem_lower |-> Lower(file_path.stem),
     depth |-> Len(PathParts(file_path)),
     file_parents |-> {Lower(file_path.parents[i]) :
                          i \in 1..Len(file_path.parents)}]

----------------------------------------------------------------------------
(* core/categorization.py: calculate_significance *)

\* line 198-202: the universal context test
MatchesContext(file_path) ==
    LET meta == DerivedAttributes(file_path) IN
    \/ meta.name_lower \in UNIVERSAL_CONTEXT_FILES
    \/ StartsWithReadme(meta.name_lower)
    \/ meta.suffix_lower = ".md"

\* line 209: the manifest test
MatchesManifest(file_path, language) ==
    LET meta == DerivedAttributes(file_path)
        manifests == LANGUAGES_HEURISTICS[language].manifests
    IN meta.name_lower \in manifests \/ meta.suffix_lower \in manifests

\* line 213: the signal test
MatchesSignal(file_path, language) ==
    LET meta == DerivedAttributes(file_path)
        heuristics == LANGUAGES_HEURISTICS[language]
    IN meta.stem_lower \in heuristics.signals
          /\ meta.suffix_lower \in heuristics.extensions

\* line 217: the source test
MatchesSource(file_path, language) ==
    DerivedAttributes(file_path).suffix_lower
        \in LANGUAGES_HEURISTICS[language].extensions

\* mutant: the signal test comes before the context and manifest tests
CategoryOf_signal_first(is_context, is_manifest, is_signal, is_source) ==
    IF is_signal THEN SIGNAL
    ELSE IF is_context THEN CONTEXT
    ELSE IF is_manifest THEN MANIFEST
    ELSE IF is_source THEN SOURCE
    ELSE UNKNOWN

\* lines 198-218: the if/elif chain; UNKNOWN is the default of FileMetadata
CategoryOf(is_context, is_manifest, is_signal, is_source) ==
    IF is_context THEN CONTEXT
    ELSE IF is_manifest THEN MANIFEST
    ELSE IF is_signal THEN SIGNAL
    ELSE IF is_source THEN SOURCE
    ELSE UNKNOWN

\* lines 221-227: how much each file category is worth
scores ==
    (CONTEXT :> 1000) @@ (MANIFEST :> 80) @@ (SIGNAL :> 60) @@
    (SOURCE :> 50) @@ (UNKNOWN :> 0)

\* lines 189-239
CalculateSignificance(file_path, language) ==
    LET ignore_dirs == LANGUAGES_HEURISTICS[language].ignore_dirs
        meta == DerivedAttributes(file_path)
        category == CategoryOf(MatchesContext(file_path),
                               MatchesManifest(file_path, language),
                               MatchesSignal(file_path, language),
                               MatchesSource(file_path, language))
        base == scores[category]
        after_depth == IF meta.depth > 1
                       THEN base - (meta.depth - 1) * 5 ELSE base
        score == IF \E ignore_dir \in ignore_dirs :
                       ignore_dir \in meta.file_parents
                 THEN after_depth - 100 ELSE after_depth
    IN FileMetadata(PathParts(file_path), category, score)

----------------------------------------------------------------------------
(* ui/progress.py, ui/progress_display.py: RichProgressDisplay *)

\* an optional value: <<>> stands for None, <<v>> for the value v

IN_PROGRESS == "magenta"
COMPLETE == "green"

\* `if value` for an optional string
TruthyText(value) == value # <<>> /\ value[1] # ""

\* `if value` for an optional number
TruthyNumber(value) == value # <<>> /\ value[1] # 0

\* what a call does: the display it leaves and the exception it raises
\* (None when it returns)
Outcome(d, exception) == [display |-> d, exception |-> exception]

\* RichProgressDisplay.__init__; progresses are the rich Progress objects
\* created so far, each with its tasks (the TaskID of a task is its position
\* less one)
NewDisplay == [progress |-> <<>>, task |-> <<>>, progresses |-> <<>>]

\* rich Task as Progress.add_task creates it
RichTask(description, total) ==
    [description |-> description, total |-> total, completed |-> 0]

\* RichProgressDisplay.__enter__
DisplayEntered(d) ==
    Outcome([d EXCEPT
                !.progresses = Append(@, [live |-> TRUE, tasks |-> <<>>]),
                !.progress = <<Len(d.progresses) + 1>>],
            None)

\* RichProgressDisplay.__exit__
DisplayExited(d) ==
    IF d.progress # <<>>
    THEN Outcome([d EXCEPT !.progresses[d.progress[1]].live = FALSE], None)
    ELSE Outcome(d, None)

\* `if not self._progress` negated
HasProgress(d) == d.progress # <<>>

\* mutant: the task is not tested
HasTask_unchecked(d) == TRUE

\* `if self._task is None` negated
HasTask(d) == d.task # <<>>

\* create_task on the current Progress: the task is added, its id returned
CreateTask(d, description, total) ==
    LET p == d.progress[1]
        text == "[" \o IN_PROGRESS \o "]" \o description
    IN [d EXCEPT !.task = <<Len(d.progresses[p].tasks)>>,
                 !.progresses[p].tasks = Append(@, RichTask(text, total))]

\* RichProgressDisplay.on_start
DisplayOnStart(d, description, total) ==
    IF ~HasProgress(d) THEN Outcome(d, "RuntimeError")
    ELSE Outcome(CreateTask(d, description, total), None)

\* update_progress on the current Progress and task; rich raises KeyError
\* for a TaskID its Progress does not hold
UpdateProgress(d, progress_state, total, completed, advance, description) ==
    IF (progress_state # <<>>) # TruthyText(description)
    THEN Outcome(d, "ValueError")
    ELSE LET p == d.progress[1]
             t == d.task[1] + 1
         IN IF d.task = <<>> \/ t > Len(d.progresses[p].tasks)
            THEN Outcome(d, "KeyError")
            ELSE Outcome(
                [d EXCEPT !.progresses[p].tasks[t] =
                    [description |->
                         IF TruthyText(description)
                         THEN "[" \o progress_state[1] \o "]" \o description[1]
                         ELSE IF description # <<>> THEN description[1]
                         ELSE @.description,
                     total |-> IF total # <<>> THEN total ELSE @.total,
                     completed |->
                         IF completed # <<>> THEN completed[1]
                         ELSE IF advance # <<>> THEN @.completed + advance[1]
                         ELSE @.completed]],
                None)

\* RichProgressDisplay.on_update
DisplayOnUpdate(d, advance, description) ==
    IF ~HasProgress(d) THEN Outcome(d, "RuntimeError")
    ELSE IF ~HasTask(d) THEN Outcome(d, "RuntimeError")
    ELSE IF ~(TruthyNumber(advance) \/ TruthyText(description))
         THEN Outcome(d, "ValueError")
    ELSE IF TruthyText(description)
         THEN UpdateProgress(d, <<IN_PROGRESS>>, <<>>, <<>>, advance,
                             description)
    ELSE UpdateProgress(d, <<>>, <<>>, <<>>, advance, <<>>)

\* RichProgressDisplay.on_complete
DisplayOnComplete(d, description, completed, total) ==
    IF ~HasProgress(d) THEN Outcome(d, "RuntimeError")
    ELSE IF ~HasTask(d) THEN Outcome(d, "RuntimeError")
    ELSE UpdateProgress(d, <<COMPLETE>>, total, <<completed>>, <<>>,
                        <<description>>)

----------------------------------------------------------------------------
(* History *)

Event(op, category, count, path, batch, failed) ==
    [op |-> op, category |-> category, count |-> count, path |-> path,
     batch |-> batch, failed |-> failed]

\* start_category(category); count is the pool the call leaves
StartEvent(category, pool_after) ==
    Event("start_category", category, pool_after, "", <<>>, FALSE)
\* can_afford(count); failed when the answer is False
AffordEvent(category, count, afforded) ==
    Event("can_afford", category, count, "", <<>>, ~afforded)
\* spend(count)
SpendEvent(category, count) == Event("spend", category, count, "", <<>>, FALSE)
\* status.append(file)
AppendEvent(category, path) == Event("append", category, 0, path, <<>>, FALSE)
\* reader.read_file(full_path) of the file at the relative path; failed when
\* FileReadError is raised
ReadEvent(category, path, raised) ==
    Event("read", category, 0, path, <<>>, raised)
\* one launch of the tagging tool on a batch of absolute paths
TaggerEvent(batch, failed) == Event("run_ctags", SOURCE, 0, "", batch, failed)

----------------------------------------------------------------------------
(* process_files, core/processing.py *)

\* the category the loop of process_files is at
CurrentCategory == processing_order[category_index]

\* mutant: no category is skipped
IsSkipped_never(files_in_category) == FALSE

\* line 66: `if not files_in_category`
IsSkipped(files_in_category) == files_in_category = <<>>

\* lines 64-67: an empty category is skipped
SkipCategory ==
    /\ pc = "loop"
    /\ category_index <= Len(processing_order)
    /\ IsSkipped(files_by_category[CurrentCategory])
    /\ category_index' = category_index + 1
    /\ UNCHANGED <<arg_category, arg_language, arg_file_path, arg_file_paths,
                   display, input_mapping, entry, pc, files_by_category, disk,
                   tagdb, limits, initial_allocations, pool, files, status,
                   status_results, file_index, start, processed_files,
                   processed_index, budget_exhausted, list_fully_processed,
                   stdout_lines, run_result, log>>

\* lines 69-90: the list is sorted in place, a status is created and the
\* extractor of the category is called with both
DispatchCategory ==
    /\ pc = "loop"
    /\ category_index <= Len(processing_order)
    /\ ~IsSkipped(files_by_category[CurrentCategory])
    /\ LET sorted == SortFiles(files_by_category[CurrentCategory]) IN
        /\ files_by_category' =
               [files_by_category EXCEPT ![CurrentCategory] = sorted]
        /\ files' = sorted
    /\ status' = CategoryProcessedFiles(CurrentCategory)
    /\ pc' = IF CurrentCategory = SOURCE THEN "ctags_start" ELSE "readable_start"
    /\ UNCHANGED <<arg_category, arg_language, arg_file_path, arg_file_paths,
                   display, input_mapping, entry, disk, tagdb, limits,
                   initial_allocations, pool, category_index, status_results,
                   file_index, start, processed_files, processed_index,
                   budget_exhausted, list_fully_processed, stdout_lines,
                   run_result, log>>

\* line 92: status_results[category] = status
StoreStatus ==
    /\ pc = "store"
    /\ status_results' =
           [c \in DOMAIN status_results \cup {CurrentCategory} |->
               IF c = CurrentCategory THEN status ELSE status_results[c]]
    /\ category_index' = category_index + 1
    /\ pc' = "loop"
    /\ UNCHANGED <<arg_category, arg_language, arg_file_path, arg_file_paths,
                   display, input_mapping, entry, files_by_category, disk,
                   tagdb, limits, initial_allocations, pool, files, status,
                   file_index, start, processed_files, processed_index,
                   budget_exhausted, list_fully_processed, stdout_lines,
                   run_result, log>>

\* line 94: return status_results
ReturnResults ==
    /\ pc = "loop"
    /\ category_index > Len(processing_order)
    /\ pc' = "done"
    /\ UNCHANGED <<arg_category, arg_language, arg_file_path, arg_file_paths,
                   display, input_mapping, entry, files_by_category, disk,
                   tagdb, limits, initial_allocations, pool, category_index,
                   files, status, status_results, file_index, start,
                   processed_files, processed_index, budget_exhausted,
                   list_fully_processed, stdout_lines, run_result, log>>

\* where an extractor returns to
AfterExtractor == IF entry = "process_files" THEN "store" ELSE "done"

----------------------------------------------------------------------------
(* process_readable_files_for_category, core/processing.py *)

\* lines 107-135: token_budget.start_category(category)
ReadableStart ==
    /\ pc = "readable_start"
    /\ pool' = StartCategory(pool, initial_allocations, status.category)
    /\ log' = Append(log, StartEvent(status.category, pool'))
    /\ file_index' = 1
    /\ pc' = IF files = <<>> THEN "readable_complete" ELSE "readable_loop"
    /\ UNCHANGED <<arg_category, arg_language, arg_file_path, arg_file_paths,
                   display, input_mapping, entry, files_by_category, disk,
                   tagdb, limits, initial_allocations, category_index, files,
                   status, status_results, start, processed_files,
                   processed_index, budget_exhausted, list_fully_processed,
                   stdout_lines, run_result>>

\* mutant: `continue` in place of `break`
AfterUnaffordable_continue(next_pc) == next_pc

\* lines 158-159: the position after an unaffordable file (`break`)
AfterUnaffordable(next_pc) == "readable_complete"

\* mutant: `break` in place of `continue`
AfterReadError_break(next_pc) == "readable_complete"

\* lines 144-149: the position after a file whose read raised (`continue`)
AfterReadError(next_pc) == next_pc

\* lines 137-159: one iteration of the loop over the files
ReadableFile ==
    /\ pc = "readable_loop"
    /\ LET file_meta == files[file_index]
           category == status.category
           full_path == FullPath(Root, file_meta.file_path)
           next_pc == IF file_index = Len(files)
                      THEN "readable_complete" ELSE "readable_loop"
       IN
       IF ~PathExists(disk, full_path)
       THEN /\ pc' = next_pc
            /\ file_index' = file_index + 1
            /\ UNCHANGED <<pool, status, log>>
       ELSE LET read == ReadFile(disk, full_path)
                token_usage == TokenCount(read.content)
                rel_path == PathStr(file_meta.file_path)
            IN
            IF read.raised
            THEN /\ log' = Append(log, ReadEvent(category, rel_path, TRUE))
                 /\ pc' = AfterReadError(next_pc)
                 /\ file_index' = file_index + 1
                 /\ UNCHANGED <<pool, status>>
            ELSE IF CanAfford(pool, token_usage)
            THEN /\ pool' = Spend(pool, token_usage)
                 /\ status' = [status EXCEPT !.files = Append(@,
                        ProcessedFile(rel_path, category, read.content))]
                 /\ log' = log \o <<ReadEvent(category, rel_path, FALSE),
                                    AffordEvent(category, token_usage, TRUE),
                                    SpendEvent(category, token_usage),
                                    AppendEvent(category, rel_path)>>
                 /\ pc' = next_pc
                 /\ file_index' = file_index + 1
            ELSE /\ log' = log \o <<ReadEvent(category, rel_path, FALSE),
                                    AffordEvent(category, token_usage, FALSE)>>
                 /\ pc' = AfterUnaffordable(next_pc)
                 /\ file_index' = file_index + 1
                 /\ UNCHANGED <<pool, status>>
    /\ UNCHANGED <<arg_category, arg_language, arg_file_path, arg_file_paths,
                   display, input_mapping, entry, files_by_category, disk,
                   tagdb, limits, initial_allocations, category_index, files,
                   status_results, start, processed_files, processed_index,
                   budget_exhausted, list_fully_processed, stdout_lines,
                   run_result>>

\* lines 161-163: on_complete, and the function returns
ReadableReturn ==
    /\ pc = "readable_complete"
    /\ pc' = AfterExtractor
    /\ UNCHANGED <<arg_category, arg_language, arg_file_path, arg_file_paths,
                   display, input_mapping, entry, files_by_category, disk,
                   tagdb, limits, initial_allocations, pool, category_index,
                   files, status, status_results, file_index, start,
                   processed_files, processed_index, budget_exhausted,
                   list_fully_processed, stdout_lines, run_result, log>>

----------------------------------------------------------------------------
(* extract_ctags_for_source_files, core/ctags_extraction.py *)

\* lines 79-90: start = 0, token_budget.start_category(status.category)
CtagsStart ==
    /\ pc = "ctags_start"
    /\ start' = 0
    /\ pool' = StartCategory(pool, initial_allocations, status.category)
    /\ log' = Append(log, StartEvent(status.category, pool'))
    /\ budget_exhausted' = FALSE
    /\ list_fully_processed' = FALSE
    /\ pc' = "ctags_batch"
    /\ UNCHANGED <<arg_category, arg_language, arg_file_path, arg_file_paths,
                   display, input_mapping, entry, files_by_category, disk,
                   tagdb, limits, initial_allocations, category_index, files,
                   status, status_results, file_index, processed_files,
                   processed_index, stdout_lines, run_result>>

\* lines 93-99: one call of _run_ctags on the batch that begins at start;
\* an exception that leaves _run_ctags leaves the extractor and its callers
CtagsBatch ==
    /\ pc = "ctags_batch"
    /\ LET batch == BatchPaths(Root, files, start, BatchLimit)
           lines == TaggerOutput(tagdb, batch)
       IN \E fail_at \in -1..Len(lines) :
          LET result == RunCtags(Root, lines, start, fail_at) IN
          /\ log' = Append(log, TaggerEvent(batch, fail_at >= 0))
          /\ IF result.raised
             THEN /\ pc' = "raised"
                  /\ UNCHANGED <<start, processed_files, list_fully_processed,
                                 processed_index>>
             ELSE /\ start' = result.next
                  /\ processed_files' = result.files
                  /\ IF result.files = <<>>
                     THEN /\ pc' = "ctags_complete"
                          /\ UNCHANGED <<list_fully_processed, processed_index>>
                     ELSE /\ list_fully_processed' =
                                IF result.next >= Len(files)
                                THEN TRUE ELSE list_fully_processed
                          /\ processed_index' = 1
                          /\ pc' = "ctags_files"
    /\ UNCHANGED <<arg_category, arg_language, arg_file_path, arg_file_paths,
                   display, input_mapping, entry, files_by_category, disk,
                   tagdb, limits, initial_allocations, pool, category_index,
                   files, status, status_results, file_index,
                   budget_exhausted, stdout_lines, run_result>>

\* lines 101-110: one iteration of the loop over the files of the batch
CtagsFile ==
    /\ pc = "ctags_files"
    /\ LET file == processed_files[processed_index]
           token_usage == TokenCount(file.content)
       IN
       IF CanAfford(pool, token_usage)
       THEN /\ pool' = Spend(pool, token_usage)
            /\ status' = [status EXCEPT !.files = Append(@, file)]
            /\ log' = log \o <<AffordEvent(status.category, token_usage, TRUE),
                               SpendEvent(status.category, token_usage),
                               AppendEvent(status.category, file.path)>>
            /\ processed_index' = processed_index + 1
            /\ pc' = IF processed_index = Len(processed_files)
                     THEN "ctags_batch_end" ELSE "ctags_files"
            /\ UNCHANGED budget_exhausted
       ELSE /\ budget_exhausted' = TRUE
            /\ log' = Append(log, AffordEvent(status.category, token_usage, FALSE))
            /\ pc' = "ctags_batch_end"
            /\ UNCHANGED <<pool, status, processed_index>>
    /\ UNCHANGED <<arg_category, arg_language, arg_file_path, arg_file_paths,
                   display, input_mapping, entry, files_by_category, disk,
                   tagdb, limits, initial_allocations, category_index, files,
                   status_results, file_index, start, processed_files,
                   list_fully_processed, stdout_lines, run_result>>

\* mutant: the exhausted budget does not end the loop
LoopEnds_ignoring_budget(exhausted, fully_processed) == fully_processed

\* line 112: `if budget_exhausted or list_fully_processed`
LoopEnds(exhausted, fully_processed) == exhausted \/ fully_processed

\* lines 112-113: the loop ends or goes on with the next batch
CtagsBatchEnd ==
    /\ pc = "ctags_batch_end"
    /\ pc' = IF LoopEnds(budget_exhausted, list_fully_processed)
             THEN "ctags_complete" ELSE "ctags_batch"
    /\ UNCHANGED <<arg_category, arg_language, arg_file_path, arg_file_paths,
                   display, input_mapping, entry, files_by_category, disk,
                   tagdb, limits, initial_allocations, pool, category_index,
                   files, status, status_results, file_index, start,
                   processed_files, processed_index, budget_exhausted,
                   list_fully_processed, stdout_lines, run_result, log>>

\* lines 115-119: on_complete, and the function returns
CtagsReturn ==
    /\ pc = "ctags_complete"
    /\ pc' = AfterExtractor
    /\ UNCHANGED <<arg_category, arg_language, arg_file_path, arg_file_paths,
                   display, input_mapping, entry, files_by_category, disk,
                   tagdb, limits, initial_allocations, pool, category_index,
                   files, status, status_results, file_index, start,
                   processed_files, processed_index, budget_exhausted,
                   list_fully_processed, stdout_lines, run_result, log>>

----------------------------------------------------------------------------
(* _run_ctags called alone on a given output of the tagging tool *)

\* mutant: the category is not checked
CategoryAccepted_any(category) == TRUE

\* lines 148-149: any category but SOURCE raises ValueError
CategoryAccepted(category) == category = SOURCE

\* the call: a refused category raises before the command is built and the
\* tool launched, so that nothing is logged and nothing returned

RunCtagsCall ==
    /\ pc = "run_ctags"
    /\ IF ~CategoryAccepted(arg_category)
       THEN /\ pc' = "raised"
            /\ UNCHANGED <<run_result, log>>
       ELSE /\ \E fail_at \in -1..Len(stdout_lines) :
                  /\ run_result' = RunCtags(Root, stdout_lines, start, fail_at)
                  /\ log' = Append(log, TaggerEvent(<<>>, fail_at >= 0))
            /\ pc' = IF run_result'.raised THEN "raised" ELSE "done"
    /\ UNCHANGED <<arg_category, arg_language, arg_file_path, arg_file_paths,
                   display, input_mapping, entry, files_by_category, disk,
                   tagdb, limits, initial_allocations, pool, category_index,
                   files, status, status_results, file_index, start,
                   processed_files, processed_index, budget_exhausted,
                   list_fully_processed, stdout_lines>>

----------------------------------------------------------------------------
(* Inputs *)

RECURSIVE InjSeqs(_, _)
\* the sequences of at most n distinct elements of S
InjSeqs(S, n) ==
    IF n = 0 THEN {<<>>}
    ELSE {<<>>} \cup UNION {{<<x>> \o t : t \in InjSeqs(S \ {x}, n - 1)} : x \in S}

\* the lists of FileMetadata over the paths, with every choice of scores
FileLists(category, paths, score_set, n) ==
    UNION {{[k \in 1..Len(ps) |-> FileMetadata(ps[k], category, sc[k])] :
               sc \in [1..Len(ps) -> score_set]} : ps \in InjSeqs(paths, n)}

Ratio(num, den) == [num |-> num, den |-> den]

TextFile(content) == [kind |-> "text", content |-> content, null_at |-> 0]
OtherFile(kind) == [kind |-> kind, content |-> "", null_at |-> 0]
\* a file whose first null byte is at position null_at; content is what
\* reading it as text gives
BinaryFile(null_at) == [kind |-> "binary", content |-> "bin", null_at |-> null_at]

\* values of the variables a call does not use
NoStatus == CategoryProcessedFiles(None)
NoFile == PurePath(<<>>, "", "")
NoResult == [ok |-> FALSE, files |-> <<>>, next |-> 0, raised |-> FALSE]

(* --- process_files --- *)

Scores == {50, 55}

RepoPaths(category) ==
    CASE category = CONTEXT  -> {<<"README.md">>, <<"docs", "guide.md">>}
      [] category = MANIFEST -> {<<"setup.py">>, <<"pkg", "setup.py">>}
      [] category = SIGNAL   -> {<<"main.py">>}
      [] category = SOURCE   -> {<<"util.py">>, <<"src", "core.py">>,
                                 <<"src", "api.py">>}
      [] category = UNKNOWN  -> {<<"LICENSE">>}

RepoDisk ==
    (FullPath(Root, <<"README.md">>) :> TextFile("abcd")) @@
    (FullPath(Root, <<"docs", "guide.md">>) :> TextFile("abcdefghij")) @@
    (FullPath(Root, <<"setup.py">>) :> TextFile("abcdef")) @@
    (FullPath(Root, <<"pkg", "setup.py">>) :> TextFile("ab")) @@
    (FullPath(Root, <<"main.py">>) :> TextFile("abcdefgh")) @@
    (FullPath(Root, <<"LICENSE">>) :> TextFile("abc"))

RepoTags ==
    (FullPath(Root, <<"util.py">>) :> <<>>) @@
    (FullPath(Root, <<"src", "core.py">>) :>
        <<TagLine(FullPath(Root, <<"src", "core.py">>), "class", "Core")>>) @@
    (FullPath(Root, <<"src", "api.py">>) :>
        <<TagLine(FullPath(Root, <<"src", "api.py">>), "type", "T"),
          TagLine(FullPath(Root, <<"src", "api.py">>), "variable", "v"),
          TagLine(FullPath(Root, <<"src", "api.py">>), "enum", "E")>>)

\* ratios summing to 1, ratios summing to more than 1, a category without ratio
RatiosSet ==
    {[c \in {CONTEXT, MANIFEST, SIGNAL, SOURCE} |-> Ratio(1, 4)],
     [c \in {CONTEXT, MANIFEST, SIGNAL, SOURCE} |-> Ratio(1, 2)],
     [c \in {CONTEXT, SOURCE} |-> Ratio(1, 2)]}

LimitsSet == {[max_total |-> MaxTotal, ratios |-> r] : r \in RatiosSet}

\* the state in which process_files is entered
ProcessFilesCall ==
    /\ entry = "process_files"
    /\ pc = "loop"
    /\ files_by_category \in
          {[c \in {CONTEXT, MANIFEST, SIGNAL, SOURCE, UNKNOWN} |->
               CASE c = CONTEXT  -> ctx
                 [] c = MANIFEST -> man
                 [] c = SIGNAL   -> sig
                 [] c = SOURCE   -> src
                 [] c = UNKNOWN  -> <<FileMetadata(<<"LICENSE">>, UNKNOWN, 0)>>] :
             ctx \in FileLists(CONTEXT, RepoPaths(CONTEXT), Scores, 2),
             man \in FileLists(MANIFEST, RepoPaths(MANIFEST), Scores, 2),
             sig \in FileLists(SIGNAL, RepoPaths(SIGNAL), {60}, 1),
             src \in FileLists(SOURCE, RepoPaths(SOURCE), Scores, 2)}
    /\ disk = RepoDisk
    /\ tagdb = RepoTags
    /\ limits \in LimitsSet
    /\ initial_allocations = InitialAllocations(limits)
    /\ pool = 0
    /\ category_index = 1
    /\ files = <<>>
    /\ status = NoStatus
    /\ status_results = <<>>
    /\ file_index = 0
    /\ start = 0
    /\ processed_files = <<>>
    /\ processed_index = 0
    /\ budget_exhausted = FALSE
    /\ list_fully_processed = FALSE
    /\ stdout_lines = <<>>
    /\ run_result = NoResult
    /\ log = <<>>
    /\ display = NewDisplay
    /\ arg_file_paths = <<>>
    /\ arg_category = None
    /\ arg_language = None
    /\ arg_file_path = NoFile

Next ==
    \/ SkipCategory
    \/ DispatchCategory
    \/ StoreStatus
    \/ ReturnResults
    \/ ReadableStart
    \/ ReadableFile
    \/ ReadableReturn
    \/ CtagsStart
    \/ CtagsBatch
    \/ CtagsFile
    \/ CtagsBatchEnd
    \/ CtagsReturn

Init == ProcessFilesCall /\ input_mapping = <<>>

\* the same calls, with the mapping kept as it was passed in
InitFrame == ProcessFilesCall /\ input_mapping = files_by_category

Spec == Init /\ [][Next]_vars

SpecFrame == InitFrame /\ [][Next]_vars

----------------------------------------------------------------------------
(* process_readable_files_for_category called alone *)

\* the i-th file of a list handed to an extractor called alone
NthPath(i) == <<"d" \o ToString(i), "f" \o ToString(i)>>

\* the list of n files, best score first
NthFiles(category, n) ==
    [k \in 1..n |-> FileMetadata(NthPath(k), category, 100 - k)]

ReadableDiskEntries ==
    {TextFile(c) : c \in {"", "a", "ab"}} \cup
    {OtherFile(k) : k \in DiskKinds \ {"text", "binary"}} \cup
    {BinaryFile(n) : n \in {1, ChunkSize, ChunkSize + 1}}

\* a budget some earlier category may have left tokens in
EarlierPools == {0, 1}

InitReadable ==
    /\ entry = "process_readable_files_for_category"
    /\ pc = "readable_start"
    /\ files_by_category = <<>>
    /\ \E category \in {CONTEXT, MANIFEST, SIGNAL}, n \in 0..MaxReadable :
          /\ files = NthFiles(category, n)
          /\ status = CategoryProcessedFiles(category)
          /\ disk \in [{FullPath(Root, NthPath(k)) : k \in 1..n} ->
                          ReadableDiskEntries]
          /\ limits \in {[max_total |-> MaxTotal,
                          ratios |-> [c \in {category} |-> r]] :
                            r \in {Ratio(1, 16), Ratio(1, 8)}}
    /\ tagdb = <<>>
    /\ initial_allocations = InitialAllocations(limits)
    /\ pool \in EarlierPools
    /\ category_index = 0
    /\ status_results = <<>>
    /\ file_index = 0
    /\ start = 0
    /\ processed_files = <<>>
    /\ processed_index = 0
    /\ budget_exhausted = FALSE
    /\ list_fully_processed = FALSE
    /\ stdout_lines = <<>>
    /\ run_result = NoResult
    /\ log = <<>>
    /\ input_mapping = <<>>
    /\ display = NewDisplay
    /\ arg_file_paths = <<>>
    /\ arg_category = None
    /\ arg_language = None
    /\ arg_file_path = NoFile

NextReadable ==
    \/ ReadableStart
    \/ ReadableFile
    \/ ReadableReturn

SpecReadable == InitReadable /\ [][NextReadable]_vars

----------------------------------------------------------------------------
(* extract_ctags_for_source_files called alone *)

\* what the tagging tool may print for one file
OutputShapes == {"none", "one", "two", "noise"}

FileOutput(full_path, shape) ==
    CASE shape = "none"  -> <<>>
      [] shape = "one"   -> <<TagLine(full_path, "class", "A")>>
      [] shape = "two"   -> <<TagLine(full_path, "class", "A"),
                              TagLine(full_path, "method", "m")>>
      [] shape = "noise" -> <<TagLine(full_path, "variable", "v")>>

InitCtags ==
    /\ entry = "extract_ctags_for_source_files"
    /\ pc = "ctags_start"
    /\ files_by_category = <<>>
    /\ \E n \in 0..MaxSource :
          /\ files = NthFiles(SOURCE, n)
          /\ \E shape \in [1..n -> OutputShapes] :
                tagdb = [p \in {FullPath(Root, NthPath(k)) : k \in 1..n} |->
                           LET k == CHOOSE i \in 1..n : FullPath(Root, NthPath(i)) = p
                           IN FileOutput(p, shape[k])]
    /\ status = CategoryProcessedFiles(SOURCE)
    /\ disk = <<>>
    /\ limits \in {[max_total |-> MaxTotal, ratios |-> [c \in {SOURCE} |-> r]] :
                      r \in {Ratio(1, 2), Ratio(1, 1), Ratio(2, 1)}}
    /\ initial_allocations = InitialAllocations(limits)
    /\ pool \in EarlierPools
    /\ category_index = 0
    /\ status_results = <<>>
    /\ file_index = 0
    /\ start = 0
    /\ processed_files = <<>>
    /\ processed_index = 0
    /\ budget_exhausted = FALSE
    /\ list_fully_processed = FALSE
    /\ stdout_lines = <<>>
    /\ run_result = NoResult
    /\ log = <<>>
    /\ input_mapping = <<>>
    /\ display = NewDisplay
    /\ arg_file_paths = <<>>
    /\ arg_category = None
    /\ arg_language = None
    /\ arg_file_path = NoFile

NextCtags ==
    \/ CtagsStart
    \/ CtagsBatch
    \/ CtagsFile
    \/ CtagsBatchEnd
    \/ CtagsReturn

SpecCtags == InitCtags /\ [][NextCtags]_vars

----------------------------------------------------------------------------
(* _run_ctags called alone *)

\* the lines the output handed to _run_ctags is made of
OutputLines ==
    {TagLine(FullPath(Root, p), k, "A") :
        p \in {<<"a.py">>, <<"src", "b.py">>}, k \in {"class", "type"}} \cup
    {Line("blank", NoPath, None, None),
     Line("nonjson", NoPath, None, None),
     Line("eof", NoPath, None, None),
     Line("nonobject", NoPath, None, None),
     TagLine(FullPath(Root, <<"a.py">>), "variable", "v"),
     TagLine(FullPath(Root, <<"a.py">>), None, "A"),
     TagLine(FullPath(Root, <<"a.py">>), JsonList, "A"),
     TagLine(FullPath(Root, <<"a.py">>), "class", None),
     TagLine(FullPath(Root, <<"a.py">>), "class", ""),
     TagLine(NoPath, "class", "A"),
     TagLine(NoPath, JsonList, "A")}

RECURSIVE SeqsUpTo(_, _)
\* the sequences over S of length at most n
SeqsUpTo(S, n) ==
    IF n = 0 THEN {<<>>}
    ELSE {<<>>} \cup {<<x>> \o t : x \in S, t \in SeqsUpTo(S, n - 1)}

InitRunCtags ==
    /\ entry = "_run_ctags"
    /\ pc = "run_ctags"
    /\ stdout_lines \in SeqsUpTo(OutputLines, MaxLines)
    /\ start \in {0, 1}
    /\ files_by_category = <<>>
    /\ files = <<>>
    /\ status = NoStatus
    /\ disk = <<>>
    /\ tagdb = <<>>
    /\ limits = [max_total |-> MaxTotal, ratios |-> <<>>]
    /\ initial_allocations = InitialAllocations(limits)
    /\ pool = 0
    /\ category_index = 0
    /\ status_results = <<>>
    /\ file_index = 0
    /\ processed_files = <<>>
    /\ processed_index = 0
    /\ budget_exhausted = FALSE
    /\ list_fully_processed = FALSE
    /\ run_result = NoResult
    /\ log = <<>>
    /\ input_mapping = <<>>
    /\ display = NewDisplay
    /\ arg_file_paths = <<>>
    /\ arg_category \in FileCategory
    /\ arg_language = None
    /\ arg_file_path = NoFile

NextRunCtags == RunCtagsCall

SpecRunCtags == InitRunCtags /\ [][NextRunCtags]_vars

----------------------------------------------------------------------------
(* calculate_significance called alone *)

CalculateSignificanceCall ==
    /\ pc = "calculate_significance"
    /\ files' = <<CalculateSignificance(arg_file_path, arg_language)>>
    /\ pc' = "done"
    /\ UNCHANGED <<arg_category, arg_language, arg_file_path, arg_file_paths,
                   display, input_mapping, entry, files_by_category, disk,
                   tagdb, limits, initial_allocations, pool, category_index,
                   status, status_results, file_index, start, processed_files,
                   processed_index, budget_exhausted, list_fully_processed,
                   stdout_lines, run_result, log>>

\* the file names scored, as (stem, suffix): names of every category and of
\* several categories at once, in lower and in mixed case
FileNames ==
    {<<"README", ".md">>, <<"readme", ".rst">>, <<"readme", ".py">>,
     <<"notes", ".md">>, <<".cursorrules", "">>, <<"Dockerfile", "">>,
     <<"makefile", "">>, <<"Makefile", "">>,
     <<"setup", ".py">>, <<"package", ".json">>, <<"pom", ".xml">>,
     <<"App", ".csproj">>, <<"global", ".json">>, <<"go", ".mod">>,
     <<"main", ".go">>, <<"CMakeLists", ".txt">>, <<".gitmodules", "">>,
     <<"main", ".py">>, <<"Main", ".PY">>, <<"index", ".ts">>,
     <<"Application", ".java">>, <<"Program", ".cs">>, <<"main", ".cpp">>,
     <<"utils", ".py">>, <<"utils", ".ts">>, <<"Utils", ".java">>,
     <<"utils", ".cs">>, <<"utils", ".go">>, <<"utils", ".c">>,
     <<"LICENSE", "">>, <<"data", ".bin">>, <<"main", ".txt">>}

\* the names of the model equal to the entry up to letter case
CaseVariants(ignore_dir) ==
    {s \in DOMAIN LowerOf \cup {ignore_dir, Lower(ignore_dir)} :
        Lower(s) = Lower(ignore_dir)}

\* directories of the deeper paths: one outside every ignore set, two inside
\* the ignore set of every language
SmallDirs == {"src", "tests", "MOCKS"}

\* the parent directories of the paths scored for a language: every case
\* variant of every entry of its ignore set as the only parent, and every
\* sequence of at most MaxDirs of the small set
ParentDirs(l) ==
    SeqsUpTo(SmallDirs, MaxDirs) \cup
    {<<d>> : d \in UNION {CaseVariants(e) :
                             e \in LANGUAGES_HEURISTICS[l].ignore_dirs}}

InitSignificance ==
    /\ entry = "calculate_significance"
    /\ pc = "calculate_significance"
    /\ arg_language \in SupportedLanguage
    /\ arg_file_path \in {PurePath(ps, n[1], n[2]) :
                            ps \in ParentDirs(arg_language), n \in FileNames}
    /\ files_by_category = <<>>
    /\ files = <<>>
    /\ status = NoStatus
    /\ disk = <<>>
    /\ tagdb = <<>>
    /\ limits = [max_total |-> MaxTotal, ratios |-> <<>>]
    /\ initial_allocations = InitialAllocations(limits)
    /\ pool = 0
    /\ category_index = 0
    /\ status_results = <<>>
    /\ file_index = 0
    /\ start = 0
    /\ processed_files = <<>>
    /\ processed_index = 0
    /\ budget_exhausted = FALSE
    /\ list_fully_processed = FALSE
    /\ stdout_lines = <<>>
    /\ run_result = NoResult
    /\ log = <<>>
    /\ input_mapping = <<>>
    /\ display = NewDisplay
    /\ arg_file_paths = <<>>
    /\ arg_category = None

NextSignificance == CalculateSignificanceCall

SpecSignificance == InitSignificance /\ [][NextSignificance]_vars

----------------------------------------------------------------------------
(* categorize_files called alone, core/categorization.py *)

\* mutant: only the categories process_files goes through are given a list
NewBuckets_processed_only ==
    [category \in {CONTEXT, MANIFEST, SIGNAL, SOURCE} |-> <<>>]

\* lines 91-93: {category: [] for category in FileCategory}
NewBuckets == [category \in FileCategory |-> <<>>]

\* lines 91-106: the mapping is created with an empty list per category
CategorizeStart ==
    /\ pc = "categorize_start"
    /\ files_by_category' = NewBuckets
    /\ file_index' = 1
    /\ pc' = "categorize_loop"
    /\ UNCHANGED <<arg_category, arg_language, arg_file_path, arg_file_paths,
                   display, input_mapping, entry, disk, tagdb, limits,
                   initial_allocations, pool, category_index, files, status,
                   status_results, start, processed_files, processed_index,
                   budget_exhausted, list_fully_processed, stdout_lines,
                   run_result, log>>

\* lines 107-109: one iteration of `for file_path in file_paths`
CategorizeFile ==
    /\ pc = "categorize_loop"
    /\ file_index <= Len(arg_file_paths)
    /\ LET file_metadata ==
               CalculateSignificance(arg_file_paths[file_index], arg_language)
       IN files_by_category' =
              [files_by_category EXCEPT
                  ![file_metadata.category] = Append(@, file_metadata)]
    /\ file_index' = file_index + 1
    /\ UNCHANGED <<arg_category, arg_language, arg_file_path, arg_file_paths,
                   display, input_mapping, entry, pc, disk, tagdb, limits,
                   initial_allocations, pool, category_index, files, status,
                   status_results, start, processed_files, processed_index,
                   budget_exhausted, list_fully_processed, stdout_lines,
                   run_result, log>>

\* lines 115-124: the loop is over, the mapping is returned
CategorizeReturn ==
    /\ pc = "categorize_loop"
    /\ file_index > Len(arg_file_paths)
    /\ pc' = "done"
    /\ UNCHANGED <<arg_category, arg_language, arg_file_path, arg_file_paths,
                   display, input_mapping, entry, files_by_category, disk,
                   tagdb, limits, initial_allocations, pool, category_index,
                   files, status, status_results, file_index, start,
                   processed_files, processed_index, budget_exhausted,
                   list_fully_processed, stdout_lines, run_result, log>>

\* longest list of paths handed to categorize_files
MaxPaths == 3

\* the paths categorized: for every language some of them fall in several
\* categories, and two of them differ in their directory only
CategorizedPaths ==
    {PurePath(<<>>, "README", ".md"), PurePath(<<>>, "package", ".json"),
     PurePath(<<>>, "setup", ".py"), PurePath(<<>>, "main", ".py"),
     PurePath(<<>>, "utils", ".py"), PurePath(<<"src">>, "utils", ".py"),
     PurePath(<<"src">>, "index", ".ts"), PurePath(<<>>, "LICENSE", "")}

InitCategorize ==
    /\ entry = "categorize_files"
    /\ pc = "categorize_start"
    /\ arg_language \in SupportedLanguage
    /\ arg_file_paths \in SeqsUpTo(CategorizedPaths, MaxPaths)
    /\ arg_file_path = NoFile
    /\ arg_category = None
    /\ files_by_category = <<>>
    /\ files = <<>>
    /\ status = NoStatus
    /\ disk = <<>>
    /\ tagdb = <<>>
    /\ limits = [max_total |-> MaxTotal, ratios |-> <<>>]
    /\ initial_allocations = InitialAllocations(limits)
    /\ pool = 0
    /\ category_index = 0
    /\ status_results = <<>>
    /\ file_index = 0
    /\ start = 0
    /\ processed_files = <<>>
    /\ processed_index = 0
    /\ budget_exhausted = FALSE
    /\ list_fully_processed = FALSE
    /\ stdout_lines = <<>>
    /\ run_result = NoResult
    /\ log = <<>>
    /\ input_mapping = <<>>
    /\ display = NewDisplay

NextCategorize ==
    \/ CategorizeStart
    \/ CategorizeFile
    \/ CategorizeReturn

SpecCategorize == InitCategorize /\ [][NextCategorize]_vars

----------------------------------------------------------------------------
(* RichProgressDisplay used alone, ui/progress_display.py *)

\* a call on the display and the exception it raised (None when it returned)
DisplayEvent(op, exception) == [op |-> op, exception |-> exception]

\* most calls made on a RichProgressDisplay used alone
MaxDisplayCalls == 5

\* the call is made, its outcome stored and logged
DisplayCall(op, outcome) ==
    /\ display' = outcome.display
    /\ log' = Append(log, DisplayEvent(op, outcome.exception))
    /\ UNCHANGED <<arg_category, arg_language, arg_file_path, arg_file_paths,
                   input_mapping, entry, pc, files_by_category, disk, tagdb,
                   limits, initial_allocations, pool, category_index, files,
                   status, status_results, file_index, start, processed_files,
                   processed_index, budget_exhausted, list_fully_processed,
                   stdout_lines, run_result>>

CallEnter ==
    /\ pc = "display"
    /\ Len(log) < MaxDisplayCalls
    /\ DisplayCall("__enter__", DisplayEntered(display))

CallExit ==
    /\ pc = "display"
    /\ Len(log) < MaxDisplayCalls
    /\ DisplayCall("__exit__", DisplayExited(display))

CallOnStart ==
    /\ pc = "display"
    /\ Len(log) < MaxDisplayCalls
    /\ \E total \in {<<>>, <<2>>} :
          DisplayCall("on_start", DisplayOnStart(display, "d", total))

CallOnUpdate ==
    /\ pc = "display"
    /\ Len(log) < MaxDisplayCalls
    /\ \E advance \in {<<>>, <<0>>, <<1>>}, description \in {<<>>, <<"">>, <<"u">>} :
          DisplayCall("on_update", DisplayOnUpdate(display, advance, description))

CallOnComplete ==
    /\ pc = "display"
    /\ Len(log) < MaxDisplayCalls
    /\ \E description \in {"", "c"}, completed \in {0, 2}, total \in {<<>>, <<2>>} :
          DisplayCall("on_complete",
                      DisplayOnComplete(display, description, completed, total))

InitDisplay ==
    /\ entry = "RichProgressDisplay"
    /\ pc = "display"
    /\ display = NewDisplay
    /\ log = <<>>
    /\ input_mapping = <<>>
    /\ arg_language = None
    /\ arg_file_path = NoFile
    /\ arg_file_paths = <<>>
    /\ arg_category = None
    /\ files_by_category = <<>>
    /\ files = <<>>
    /\ status = NoStatus
    /\ disk = <<>>
    /\ tagdb = <<>>
    /\ limits = [max_total |-> MaxTotal, ratios |-> <<>>]
    /\ initial_allocations = InitialAllocations(limits)
    /\ pool = 0
    /\ category_index = 0
    /\ status_results = <<>>
    /\ file_index = 0
    /\ start = 0
    /\ processed_files = <<>>
    /\ processed_index = 0
    /\ budget_exhausted = FALSE
    /\ list_fully_processed = FALSE
    /\ stdout_lines = <<>>
    /\ run_result = NoResult

NextDisplay ==
    \/ CallEnter
    \/ CallExit
    \/ CallOnStart
    \/ CallOnUpdate
    \/ CallOnComplete

SpecDisplay == InitDisplay /\ [][NextDisplay]_vars

----------------------------------------------------------------------------
(* PooledTokenBudget used alone, core/tokens.py *)

\* start_category(category), for any member of FileCategory
BudgetStartCategory ==
    /\ pc = "budget"
    /\ Len(log) < MaxCalls
    /\ \E category \in FileCategory :
          /\ pool' = StartCategory(pool, initial_allocations, category)
          /\ log' = Append(log, StartEvent(category, pool'))
    /\ UNCHANGED <<arg_category, arg_language, arg_file_path, arg_file_paths,
                   display, input_mapping, entry, pc, files_by_category, disk,
                   tagdb, limits, initial_allocations, category_index, files,
                   status, status_results, file_index, start, processed_files,
                   processed_index, budget_exhausted, list_fully_processed,
                   stdout_lines, run_result>>

\* can_afford(count): the answer is recorded, nothing changes
BudgetCanAfford ==
    /\ pc = "budget"
    /\ Len(log) < MaxCalls
    /\ \E count \in 0..MaxSpend :
          log' = Append(log, AffordEvent(None, count, CanAfford(pool, count)))
    /\ UNCHANGED <<arg_category, arg_language, arg_file_path, arg_file_paths,
                   display, input_mapping, entry, pc, files_by_category, disk,
                   tagdb, limits, initial_allocations, pool, category_index,
                   files, status, status_results, file_index, start,
                   processed_files, processed_index, budget_exhausted,
                   list_fully_processed, stdout_lines, run_result>>

\* spend(count), whether or not can_afford was asked first
BudgetSpend ==
    /\ pc = "budget"
    /\ Len(log) < MaxCalls
    /\ \E count \in 0..MaxSpend :
          /\ pool' = Spend(pool, count)
          /\ log' = Append(log, SpendEvent(None, count))
    /\ UNCHANGED <<arg_category, arg_language, arg_file_path, arg_file_paths,
                   display, input_mapping, entry, pc, files_by_category, disk,
                   tagdb, limits, initial_allocations, category_index, files,
                   status, status_results, file_index, start, processed_files,
                   processed_index, budget_exhausted, list_fully_processed,
                   stdout_lines, run_result>>

\* the default ratios of TokenLimits, and a single large ratio
BudgetRatios ==
    {(CONTEXT :> Ratio(1, 10)) @@ (MANIFEST :> Ratio(1, 20)) @@
     (SIGNAL :> Ratio(1, 20)) @@ (SOURCE :> Ratio(2, 5)),
     (CONTEXT :> Ratio(1, 2))}

\* PooledTokenBudget.__init__
InitBudget ==
    /\ entry = "PooledTokenBudget"
    /\ pc = "budget"
    /\ limits \in {[max_total |-> MaxTotal, ratios |-> r] : r \in BudgetRatios}
    /\ initial_allocations = InitialAllocations(limits)
    /\ pool = 0
    /\ files_by_category = <<>>
    /\ files = <<>>
    /\ status = NoStatus
    /\ disk = <<>>
    /\ tagdb = <<>>
    /\ category_index = 0
    /\ status_results = <<>>
    /\ file_index = 0
    /\ start = 0
    /\ processed_files = <<>>
    /\ processed_index = 0
    /\ budget_exhausted = FALSE
    /\ list_fully_processed = FALSE
    /\ stdout_lines = <<>>
    /\ run_result = NoResult
    /\ log = <<>>
    /\ input_mapping = <<>>
    /\ display = NewDisplay
    /\ arg_file_paths = <<>>
    /\ arg_category = None
    /\ arg_language = None
    /\ arg_file_path = NoFile

NextBudget ==
    \/ BudgetStartCategory
    \/ BudgetCanAfford
    \/ BudgetSpend

SpecBudget == InitBudget /\ [][NextBudget]_vars

----------------------------------------------------------------------------
(* Properties: auxiliary definitions *)

IsStart(e) == e.op = "start_category"
IsSpend(e) == e.op = "spend"
IsTagger(e) == e.op = "run_ctags"

RECURSIVE SumCounts(_)
\* the sum of the count fields of a sequence of events
SumCounts(events) ==
    IF events = <<>> THEN 0 ELSE Head(events).count + SumCounts(Tail(events))

\* the categories of the start_category calls, in call order
StartedCategories ==
    LET starts == SelectSeq(log, IsStart)
    IN [k \in 1..Len(starts) |-> starts[k].category]

HasFiles(category) == files_by_category[category] # <<>>

\* the processed categories that have files, in the order of the spec
NonEmptyInOrder == SelectSeq(<<CONTEXT, MANIFEST, SIGNAL, SOURCE>>, HasFiles)

IsPrefix(a, b) == Len(a) <= Len(b) /\ a = SubSeq(b, 1, Len(a))

\* max_total * ratio floored, 0 without a ratio, from the TokenLimits alone
LimitsAllocation(category) ==
    IF category \in DOMAIN limits.ratios
    THEN (limits.max_total * limits.ratios[category].num)
             \div limits.ratios[category].den
    ELSE 0

RECURSIVE SumAllocations(_)
\* the allocations of a sequence of categories, added up
SumAllocations(categories) ==
    IF categories = <<>> THEN 0
    ELSE LimitsAllocation(Head(categories)) + SumAllocations(Tail(categories))

\* tokens spent by the calls before position k of the log
SpentBefore(k) == SumCounts(SelectSeq(SubSeq(log, 1, k - 1), IsSpend))

\* allocations of the categories started before position k of the log
AllocatedBefore(k) ==
    LET starts == SelectSeq(SubSeq(log, 1, k - 1), IsStart)
    IN SumAllocations([j \in 1..Len(starts) |-> starts[j].category])

RECURSIVE SumTokens(_)
\* the token counts of a sequence of ProcessedFile, added up
SumTokens(fs) ==
    IF fs = <<>> THEN 0
    ELSE (IF Head(fs).content = "" THEN 0 ELSE Len(Head(fs).content))
         + SumTokens(Tail(fs))

RECURSIVE SumKept(_)
\* the token counts of the files returned for a sequence of categories
SumKept(categories) ==
    IF categories = <<>> THEN 0
    ELSE (IF Head(categories) \in DOMAIN status_results
          THEN SumTokens(status_results[Head(categories)].files) ELSE 0)
         + SumKept(Tail(categories))

\* some produced or read file was found unaffordable
Unaffordable == \E k \in 1..Len(log) : log[k].op = "can_afford" /\ log[k].failed

----------------------------------------------------------------------------
(* C1: in a process_files run the start_category calls are those of the    *)
(* non-empty categories among CONTEXT, MANIFEST, SIGNAL, SOURCE, in that   *)
(* order and once each; every can_afford, spend and append of a category's *)
(* files lies between that category's start_category and the next one;     *)
(* UNKNOWN is never started, processed or returned.                        *)
C1_CategoryOrder ==
    /\ IsPrefix(StartedCategories, NonEmptyInOrder)
    /\ pc = "done" => StartedCategories = NonEmptyInOrder
    /\ \A k \in 1..Len(log) :
          log[k].op \in {"can_afford", "spend", "append"} =>
             \E j \in 1..(k - 1) :
                /\ log[j].op = "start_category"
                /\ log[j].category = log[k].category
                /\ \A m \in (j + 1)..(k - 1) : log[m].op # "start_category"
    /\ \A k \in 1..Len(log) :
          log[k].op = "append" =>
             \E i \in 1..Len(files_by_category[log[k].category]) :
                PathStr(files_by_category[log[k].category][i].file_path)
                    = log[k].path
    /\ \A k \in 1..Len(log) : log[k].category # UNKNOWN
    /\ UNKNOWN \notin DOMAIN status_results

\* a finished run in which all four categories were started and kept a file,
\* next to a non-empty UNKNOWN list
C1_Witness ==
    /\ pc = "done"
    /\ StartedCategories = <<CONTEXT, MANIFEST, SIGNAL, SOURCE>>
    /\ files_by_category[UNKNOWN] # <<>>
    /\ \A c \in {CONTEXT, MANIFEST, SIGNAL, SOURCE} :
          \E k \in 1..Len(log) : log[k].op = "append" /\ log[k].category = c

----------------------------------------------------------------------------
(* C3: the token counts of all files returned by one process_files run     *)
(* never add up to more than max_total.                                    *)
C3_TotalCeiling ==
    pc = "done" =>
        SumKept(<<CONTEXT, MANIFEST, SIGNAL, SOURCE>>) <= limits.max_total

----------------------------------------------------------------------------
(* C4: a start_category call leaves in the pool what the categories        *)
(* started before it left unspent plus the allocation of its category.     *)
C4_PoolCarriesOver ==
    \A k \in 1..Len(log) :
        log[k].op = "start_category" =>
            log[k].count = (AllocatedBefore(k) - SpentBefore(k))
                               + LimitsAllocation(log[k].category)

\* a later category has spent more than its own allocation
C4_Witness ==
    /\ pc = "done"
    /\ \E k \in 2..Len(log) :
          /\ log[k].op = "start_category"
          /\ AllocatedBefore(k) - SpentBefore(k) > 0
          /\ SumCounts(SelectSeq(SubSeq(log, k, Len(log)), IsSpend))
                 > LimitsAllocation(log[k].category)
          /\ \A m \in (k + 1)..Len(log) : log[m].op # "start_category"

----------------------------------------------------------------------------
(* C5: a category among CONTEXT, MANIFEST, SIGNAL, SOURCE is a key of the  *)
(* result iff its input list is non-empty, and the allocation of a         *)
(* category with an empty list is never added to the pool.                 *)
C5_KeysAreNonEmptyCategories ==
    /\ \A k \in 1..Len(log) :
          log[k].op = "start_category" => HasFiles(log[k].category)
    /\ pool = SumAllocations(StartedCategories) - SpentBefore(Len(log) + 1)
    /\ pc = "done" =>
          /\ \A c \in {CONTEXT, MANIFEST, SIGNAL, SOURCE} :
                c \in DOMAIN status_results <=> HasFiles(c)
          /\ pool = SumAllocations(NonEmptyInOrder) - SpentBefore(Len(log) + 1)

\* a result with a key whose category kept no file, and an empty category
\* whose allocation is positive
C5_Witness ==
    /\ pc = "done"
    /\ \E c \in DOMAIN status_results : status_results[c].files = <<>>
    /\ \E c \in {CONTEXT, MANIFEST, SIGNAL, SOURCE} :
          ~HasFiles(c) /\ LimitsAllocation(c) > 0

----------------------------------------------------------------------------
(* C6: the list handed to an extractor is a permutation of the category's  *)
(* input list, ordered by score descending and, for equal scores, by depth *)
(* ascending.                                                              *)
IsPermutation(a, b) ==
    /\ Len(a) = Len(b)
    /\ \E f \in [1..Len(a) -> 1..Len(a)] :
          /\ \A i, j \in 1..Len(a) : i # j => f[i] # f[j]
          /\ \A i \in 1..Len(a) : a[i] = b[f[i]]

Ordered(l) ==
    \A i, j \in 1..Len(l) :
        i < j => \/ l[i].score > l[j].score
                 \/ l[i].score = l[j].score /\ l[i].depth <= l[j].depth

C6_SortedPermutation ==
    [][(pc = "loop" /\ pc' \in {"readable_start", "ctags_start"}) =>
          /\ IsPermutation(files', files_by_category[CurrentCategory])
          /\ Ordered(files')]_vars

\* a handed list of two files in which the depth decides between equal scores
C6_Witness ==
    /\ pc \in {"readable_start", "ctags_start"}
    /\ Len(files) = 2
    /\ files[1].score = files[2].score
    /\ files[1].depth < files[2].depth

----------------------------------------------------------------------------
(* C2: over a sorted list whose files all exist and read without error,    *)
(* process_readable_files_for_category keeps exactly the first N files,    *)
(* N being the number of leading files the pool left by start_category     *)
(* affords cumulatively; no file behind the first unaffordable one is      *)
(* kept, even if it would fit.                                             *)

\* every file of the list exists and is read without FileReadError
AllReadable ==
    \A k \in 1..Len(files) :
        disk[FullPath(Root, files[k].file_path)].kind
            \in {"text", "binary", "unopenable"}

\* the content read for the k-th file of the list
ContentOfFile(k) == ReadFile(disk, FullPath(Root, files[k].file_path)).content

\* the record kept for the k-th file of the list
RecordOfFile(k) ==
    [path |-> PathStr(files[k].file_path), type |-> status.category,
     content |-> ContentOfFile(k)]

RECURSIVE PrefixCost(_)
\* the tokens of the first n files of the list
PrefixCost(n) ==
    IF n = 0 THEN 0
    ELSE PrefixCost(n - 1)
         + (IF ContentOfFile(n) = "" THEN 0 ELSE Len(ContentOfFile(n)))

\* the pool right after the start_category call of the extractor
PoolAfterStart == log[1].count

\* the number of leading files the pool affords
Cutoff ==
    CHOOSE n \in 0..Len(files) :
        /\ PrefixCost(n) <= PoolAfterStart
        /\ n = Len(files) \/ PrefixCost(n + 1) > PoolAfterStart

C2_StopOnExhaustion ==
    (pc \in {"readable_complete", "done"} /\ AllReadable) =>
        status.files = [k \in 1..Cutoff |-> RecordOfFile(k)]

\* a finished call that kept a file, stopped at the next one and left behind
\* a third one that the remaining pool would have afforded
C2_Witness ==
    /\ pc = "done"
    /\ AllReadable
    /\ Cutoff >= 1
    /\ \E k \in (Cutoff + 2)..Len(files) :
          /\ ContentOfFile(k) # ""
          /\ PrefixCost(Cutoff) + Len(ContentOfFile(k)) <= PoolAfterStart

----------------------------------------------------------------------------
(* C7: in extract_ctags_for_source_files, once a produced file was found   *)
(* unaffordable nothing more is appended or spent and the tagging tool is  *)
(* not launched again; the files kept before stay in the result.           *)
IsEffect(e) == e.op \in {"spend", "append", "run_ctags"}

C7_StopsOnUnaffordable ==
    [][Unaffordable =>
          /\ status' = status
          /\ pool' = pool
          /\ SelectSeq(log', IsEffect) = SelectSeq(log, IsEffect)]_vars

\* a finished call that kept a file, found a later one unaffordable and left
\* files of the list behind the batch
C7_Witness ==
    /\ pc = "done"
    /\ Unaffordable
    /\ status.files # <<>>
    /\ start < Len(files)

----------------------------------------------------------------------------
(* C8: no batch of one extract_ctags_for_source_files run contains a file  *)
(* that an earlier batch passed to the tagging tool.                       *)
C8_BatchesDisjoint ==
    \A j, k \in 1..Len(log) :
        (j < k /\ log[j].op = "run_ctags" /\ log[k].op = "run_ctags") =>
            \A a \in 1..Len(log[j].batch), b \in 1..Len(log[k].batch) :
                log[j].batch[a] # log[k].batch[b]

----------------------------------------------------------------------------
(* C9: absent a subprocess failure, extract_ctags_for_source_files ends    *)
(* only when every file of the list was submitted in some batch or a       *)
(* produced file was found unaffordable.                                   *)
Submitted(full_path) ==
    \E k \in 1..Len(log) :
        /\ log[k].op = "run_ctags"
        /\ \E a \in 1..Len(log[k].batch) : log[k].batch[a] = full_path

SubprocessFailed == \E k \in 1..Len(log) : log[k].op = "run_ctags" /\ log[k].failed

C9_EndsOnlyWhenExhausted ==
    (pc = "done" /\ ~SubprocessFailed) =>
        \/ \A i \in 1..Len(files) : Submitted(FullPath(Root, files[i].file_path))
        \/ Unaffordable

----------------------------------------------------------------------------
(* C10: for an output of valid tag lines, _run_ctags returns one           *)
(* ProcessedFile per maximal run of consecutive tags of one path, in       *)
(* output order, of type source_file, its content the "<kind> <name>"      *)
(* strings of the run joined by newlines; the last run is returned too.    *)
IsValidTag(line) ==
    /\ line.shape = "object"
    /\ line.path # <<>>
    /\ line.name \notin {None, ""}
    /\ line.kind \in {"class", "method", "function", "struct", "enum", "union",
                      "interface", "typedef", "type", "namespace", "module",
                      "package"}

AllValidTags(lines) == \A i \in 1..Len(lines) : IsValidTag(lines[i])

\* the positions at which a maximal run of one path begins
RunStarts(lines) ==
    {i \in 1..Len(lines) : i = 1 \/ lines[i].path # lines[i - 1].path}

\* the position at which the r-th run begins
RunStart(lines, r) ==
    CHOOSE i \in RunStarts(lines) :
        Cardinality({j \in RunStarts(lines) : j <= i}) = r

\* the position at which the run beginning at i ends
RunEnd(lines, i) ==
    CHOOSE e \in i..Len(lines) :
        /\ \A m \in i..e : lines[m].path = lines[i].path
        /\ e = Len(lines) \/ lines[e + 1].path # lines[i].path

RECURSIVE TagText(_, _, _)
\* "<kind> <name>" of the lines i..e, one per line
TagText(lines, i, e) ==
    IF i = e THEN lines[i].kind \o " " \o lines[i].name
    ELSE lines[i].kind \o " " \o lines[i].name \o "\n" \o TagText(lines, i + 1, e)

ExpectedGroups(lines) ==
    [r \in 1..Cardinality(RunStarts(lines)) |->
        LET i == RunStart(lines, r) IN
        [path |-> RelPathStr(Root, lines[i].path), type |-> "source_file",
         content |-> TagText(lines, i, RunEnd(lines, i))]]

C10_GroupsByConsecutivePath ==
    (pc = "done" /\ AllValidTags(stdout_lines) /\ ~SubprocessFailed) =>
        /\ run_result.ok
        /\ run_result.files = ExpectedGroups(stdout_lines)

\* an output with a run of two tags followed by a run of another path
C10_Witness ==
    /\ pc = "done"
    /\ AllValidTags(stdout_lines)
    /\ ~SubprocessFailed
    /\ Len(stdout_lines) = 3
    /\ stdout_lines[1].path = stdout_lines[2].path
    /\ stdout_lines[1].kind # stdout_lines[2].kind
    /\ stdout_lines[2].path # stdout_lines[3].path
    /\ Len(run_result.files) = 2

----------------------------------------------------------------------------
(* C11: a line that is blank or whitespace-only, not JSON, a JSON object   *)
(* missing path, name or kind (or with an empty path or name), or whose    *)
(* kind is outside the allow-list contributes nothing: the files and the   *)
(* next index _run_ctags returns are those of the output with such lines   *)
(* removed, also when such a line lies between two tags of one path.       *)
KindAllowList == {"class", "method", "function", "struct", "enum", "union",
                  "interface", "typedef", "type", "namespace", "module",
                  "package"}

\* the lines the claim lists; an array-valued kind is a wrongly typed field,
\* not a kind, unless path or name is missing already
IsIgnorable(line) ==
    \/ line.shape \in {"blank", "nonjson"}
    \/ /\ line.shape = "object"
       /\ \/ line.path = <<>>
          \/ line.name \in {None, ""}
          \/ line.kind \notin KindAllowList \cup {"<list>"}

OnlyTagsAndIgnorable(lines) ==
    \A i \in 1..Len(lines) : IsValidTag(lines[i]) \/ IsIgnorable(lines[i])

C11_IgnorableLinesContributeNothing ==
    (pc \in {"done", "raised"} /\ arg_category = SOURCE /\ ~SubprocessFailed
        /\ OnlyTagsAndIgnorable(stdout_lines)) =>
        LET kept == SelectSeq(stdout_lines, IsValidTag) IN
        /\ pc = "done"
        /\ run_result.ok
        /\ run_result.files = ExpectedGroups(kept)
        /\ run_result.next = start + Cardinality(RunStarts(kept))
        /\ run_result = RunCtags(Root, kept, start, -1)

\* a tag of an unlisted kind between two tags of one path, which end up in
\* one record
C11_Witness ==
    /\ pc = "done"
    /\ ~SubprocessFailed
    /\ Len(stdout_lines) = 3
    /\ IsValidTag(stdout_lines[1])
    /\ IsValidTag(stdout_lines[3])
    /\ stdout_lines[1].path = stdout_lines[3].path
    /\ stdout_lines[2].shape = "object"
    /\ stdout_lines[2].kind = "variable"
    /\ Len(run_result.files) = 1
    /\ run_result.next = start + 1

----------------------------------------------------------------------------
(* C12: no line of the tagger output makes _run_ctags raise: whatever the  *)
(* shape of a line that is not a valid tag (text that is not JSON, JSON    *)
(* that is not an object, an object with missing or wrongly typed fields), *)
(* the call, made for the SOURCE category, returns.                       *)
C12_NoLineRaises == arg_category = SOURCE => pc # "raised"

----------------------------------------------------------------------------
(* C13: when launching or reading the tagging subprocess raises OSError or *)
(* SubprocessError in some batch of a process_files run, that batch        *)
(* contributes no files, no later batch is run, no exception reaches the   *)
(* caller, and every file kept before, by earlier batches and by earlier   *)
(* categories, is in the returned result.                                  *)

\* the paths of the append calls of a category, in call order
AppendedPaths(category) ==
    LET IsAppendOf(e) == e.op = "append" /\ e.category = category
        appends == SelectSeq(log, IsAppendOf)
    IN [k \in 1..Len(appends) |-> appends[k].path]

\* the paths of the files returned for a category
ReturnedPaths(category) ==
    [k \in 1..Len(status_results[category].files) |->
        status_results[category].files[k].path]

C13_SubprocessErrorKeepsEarlierFiles ==
    /\ \A k \in 1..Len(log) :
          (log[k].op = "run_ctags" /\ log[k].failed) =>
              /\ k = Len(log)
              /\ pc # "raised"
    /\ (pc = "done" /\ SubprocessFailed) =>
          \A c \in {CONTEXT, MANIFEST, SIGNAL, SOURCE} :
              IF c \in DOMAIN status_results
              THEN ReturnedPaths(c) = AppendedPaths(c)
              ELSE AppendedPaths(c) = <<>>

\* a finished run whose second batch failed after the first batch and an
\* earlier category had kept files
C13_Witness ==
    /\ pc = "done"
    /\ log # <<>>
    /\ log[Len(log)].op = "run_ctags"
    /\ log[Len(log)].failed
    /\ log[Len(log)].batch # <<>>
    /\ \E k \in 1..Len(log) : log[k].op = "run_ctags" /\ ~log[k].failed
    /\ AppendedPaths(SOURCE) # <<>>
    /\ ReturnedPaths(SOURCE) = AppendedPaths(SOURCE)
    /\ \E c \in {CONTEXT, MANIFEST, SIGNAL} :
          c \in DOMAIN status_results /\ ReturnedPaths(c) # <<>>

----------------------------------------------------------------------------
(* process_readable_files_for_category: what a call is expected to keep    *)

\* the disk entry of the k-th file of the list
EntryOf(k) == disk[FullPath(Root, files[k].file_path)]

IsMissing(k) == EntryOf(k).kind = "missing"

\* reading the k-th file raises FileReadError
ReadFails(k) == EntryOf(k).kind = "ioerror"

\* the k-th file has a null byte among its first 1024 bytes
HasEarlyNull(k) == EntryOf(k).kind = "binary" /\ EntryOf(k).null_at \in 1..1024

\* the text expected for the k-th file
ExpectedContent(k) ==
    IF EntryOf(k).kind = "text" \/
       (EntryOf(k).kind = "binary" /\ EntryOf(k).null_at > 1024)
    THEN EntryOf(k).content
    ELSE ""

\* the positions of the files that exist and are read without error
Candidates ==
    LET IsCandidate(k) == ~IsMissing(k) /\ ~ReadFails(k)
    IN SelectSeq([k \in 1..Len(files) |-> k], IsCandidate)

RECURSIVE CandidateCost(_, _)
\* the tokens of the first n of the positions cands
CandidateCost(cands, n) ==
    IF n = 0 THEN 0
    ELSE CandidateCost(cands, n - 1)
         + (IF ExpectedContent(cands[n]) = "" THEN 0
            ELSE Len(ExpectedContent(cands[n])))

\* the number of leading positions of cands the pool affords
KeptCount(cands) ==
    CHOOSE n \in 0..Len(cands) :
        /\ CandidateCost(cands, n) <= PoolAfterStart
        /\ n = Len(cands) \/ CandidateCost(cands, n + 1) > PoolAfterStart

\* the records of the first n of the positions cands
ExpectedKept(cands, n) ==
    [j \in 1..n |->
        [path |-> PathStr(files[cands[j]].file_path),
         type |-> status.category,
         content |-> ExpectedContent(cands[j])]]

Finished == pc \in {"readable_complete", "done"}

\* the events of the log that name the k-th file of the list
EventsOfFile(k) ==
    {i \in 1..Len(log) : log[i].path = PathStr(files[k].file_path)}

WasRead(k) == \E i \in EventsOfFile(k) : log[i].op = "read"

IsAfford(e) == e.op = "can_afford"

----------------------------------------------------------------------------
(* C14: in process_readable_files_for_category a file whose absolute path  *)
(* does not exist is skipped without being read, without a can_afford      *)
(* check and without changing the pool, and the files after it are still   *)
(* processed in order: the call keeps what it keeps of the list without    *)
(* the missing files.                                                      *)
C14_MissingFileSkipped ==
    (Finished /\ \A k \in 1..Len(files) : ~ReadFails(k)) =>
        LET cands == Candidates
            n == KeptCount(cands)
        IN /\ status.files = ExpectedKept(cands, n)
           /\ pool = PoolAfterStart - CandidateCost(cands, n)
           /\ \A k \in 1..Len(files) : IsMissing(k) => EventsOfFile(k) = {}
           /\ Len(SelectSeq(log, IsAfford)) =
                 IF n < Len(cands) THEN n + 1 ELSE n

\* a missing file between two files that are kept
C14_Witness ==
    /\ pc = "done"
    /\ Len(files) = 3
    /\ EntryOf(1).kind = "text"
    /\ IsMissing(2)
    /\ EntryOf(3).kind = "text"
    /\ EntryOf(3).content # ""
    /\ Len(status.files) = 2
    /\ status.files[2].path = PathStr(files[3].file_path)

----------------------------------------------------------------------------
(* C15: when reading a file raises FileReadError, the file is not kept,    *)
(* the pool is unchanged, and processing continues with the next file of   *)
(* the category: the call keeps what it keeps of the list without the      *)
(* files that are missing or fail to read.                                 *)
C15_ReadErrorSkipped ==
    (Finished /\ \E k \in 1..Len(files) : ReadFails(k)) =>
        LET cands == Candidates
            n == KeptCount(cands)
        IN /\ status.files = ExpectedKept(cands, n)
           /\ pool = PoolAfterStart - CandidateCost(cands, n)
           /\ \A k \in 1..Len(files) :
                 ReadFails(k) =>
                    \A i \in EventsOfFile(k) :
                       log[i].op = "read" /\ log[i].failed

\* a file whose read raised, followed by a file that is kept
C15_Witness ==
    /\ pc = "done"
    /\ Len(files) >= 2
    /\ ReadFails(1)
    /\ WasRead(1)
    /\ EntryOf(2).kind = "text"
    /\ EntryOf(2).content # ""
    /\ Len(status.files) >= 1
    /\ status.files[1].path = PathStr(files[2].file_path)

----------------------------------------------------------------------------
(* C16: a file with a null byte among its first 1024 bytes raises nothing: *)
(* its read yields empty content, it is recorded with empty content at a   *)
(* cost of 0 tokens, and processing continues with the file after it.      *)
C16_BinaryFileRecordedEmpty ==
    /\ pc # "raised"
    /\ \A k \in 1..Len(files) :
          HasEarlyNull(k) =>
             \A i \in EventsOfFile(k) :
                log[i].op = "read" =>
                   /\ ~log[i].failed
                   /\ Len(log) >= i + 3
                   /\ log[i + 1] = AffordEvent(status.category, 0, TRUE)
                   /\ log[i + 2] = SpendEvent(status.category, 0)
                   /\ log[i + 3] = AppendEvent(status.category,
                                               PathStr(files[k].file_path))
                   /\ \E j \in 1..Len(status.files) :
                         status.files[j] =
                            [path |-> PathStr(files[k].file_path),
                             type |-> status.category, content |-> ""]
    /\ Finished =>
          \A k \in 1..(Len(files) - 1) :
             (HasEarlyNull(k) /\ WasRead(k) /\ ~IsMissing(k + 1)) =>
                 WasRead(k + 1)

\* a file whose first null byte is the 1024th byte, recorded between two
\* files that are kept
C16_Witness ==
    /\ pc = "done"
    /\ Len(files) = 3
    /\ EntryOf(2).kind = "binary"
    /\ EntryOf(2).null_at = 1024
    /\ Len(status.files) = 3
    /\ status.files[1].content # ""
    /\ status.files[2].content = ""
    /\ status.files[3].content # ""

----------------------------------------------------------------------------
(* calculate_significance: the call and its result *)

Scored == entry = "calculate_significance" /\ pc = "done"

\* the FileMetadata returned
Meta == files[1]

\* the rule of a category holds for the path scored
Matching(category) ==
    CASE category = CONTEXT  -> MatchesContext(arg_file_path)
      [] category = MANIFEST -> MatchesManifest(arg_file_path, arg_language)
      [] category = SIGNAL   -> MatchesSignal(arg_file_path, arg_language)
      [] category = SOURCE   -> MatchesSource(arg_file_path, arg_language)
      [] category = UNKNOWN  -> TRUE

CategoryPriority == <<CONTEXT, MANIFEST, SIGNAL, SOURCE, UNKNOWN>>

----------------------------------------------------------------------------
(* C17: calculate_significance assigns the first category, in the order    *)
(* CONTEXT, MANIFEST, SIGNAL, SOURCE, UNKNOWN, whose rule the file         *)
(* satisfies; a file satisfying no rule is UNKNOWN.                        *)
C17_FirstMatchingCategory ==
    Scored =>
        \E i \in 1..Len(CategoryPriority) :
            /\ Meta.category = CategoryPriority[i]
            /\ Matching(CategoryPriority[i])
            /\ \A j \in 1..(i - 1) : ~Matching(CategoryPriority[j])

\* main.go under GO is a manifest and a signal and comes out MANIFEST
C17_Witness ==
    /\ Scored
    /\ arg_language = GO
    /\ PathName(arg_file_path) = "main.go"
    /\ Matching(MANIFEST)
    /\ Matching(SIGNAL)
    /\ Meta.category = MANIFEST

----------------------------------------------------------------------------
(* C18: score = base(category) - 5 * max(0, depth - 1) - (100 if at least  *)
(* one ancestor directory is in the ignore set of the language, else 0),   *)
(* with bases CONTEXT 1000, MANIFEST 80, SIGNAL 60, SOURCE 50, UNKNOWN 0.  *)

BaseScore(category) ==
    CASE category = CONTEXT  -> 1000
      [] category = MANIFEST -> 80
      [] category = SIGNAL   -> 60
      [] category = SOURCE   -> 50
      [] category = UNKNOWN  -> 0

\* the ancestor directories of the path scored whose name is an entry of the
\* ignore set of the language, letter case aside
IgnoredAncestors ==
    {i \in 1..Len(arg_file_path.parents) :
        \E e \in LANGUAGES_HEURISTICS[arg_language].ignore_dirs :
            Lower(arg_file_path.parents[i]) = Lower(e)}

ExpectedScore ==
    LET depth == Len(arg_file_path.parents) + 1
    IN BaseScore(Meta.category)
       - 5 * (IF depth - 1 > 0 THEN depth - 1 ELSE 0)
       - (IF IgnoredAncestors # {} THEN 100 ELSE 0)

C18_ScoreFormula == Scored => Meta.score = ExpectedScore

----------------------------------------------------------------------------
(* C19: for every language and every entry of its ignore set, a file with  *)
(* an ancestor directory whose name equals the entry up to letter case     *)
(* receives the penalty of 100.                                            *)
C19_IgnoreDirsCaseInsensitive ==
    (Scored /\ IgnoredAncestors # {}) =>
        Meta.score = BaseScore(Meta.category)
                        - 5 * Len(arg_file_path.parents) - 100

----------------------------------------------------------------------------
(* C20: a PooledTokenBudget starts with pool 0, and every start_category   *)
(* call, repeated calls for one category included, increases the pool by   *)
(* exactly the allocation of its category (0 for a category without        *)
(* ratio) and leaves the allocations and the limits unchanged.             *)

\* the step is a start_category call
IsStartCategoryCall ==
    /\ Len(log') = Len(log) + 1
    /\ log'[Len(log')].op = "start_category"

C20_StartCategoryAddsAllocation ==
    /\ pool = 0
    /\ [][IsStartCategoryCall =>
             /\ pool' = pool + LimitsAllocation(log'[Len(log')].category)
             /\ initial_allocations' = initial_allocations
             /\ limits' = limits]_vars

\* a category started twice and a category without ratio started, a spend
\* in between
C20_Witness ==
    /\ entry = "PooledTokenBudget"
    /\ Len(log) = 3
    /\ log[1].op = "start_category"
    /\ log[2].op = "spend"
    /\ log[2].count > 0
    /\ log[3].op = "start_category"
    /\ log[3].category = log[1].category
    /\ LimitsAllocation(log[1].category) > 0
    /\ pool = 2 * LimitsAllocation(log[1].category) - log[2].count

----------------------------------------------------------------------------
(* C21 as claimed: once a spend has made the pool negative, every later    *)
(* can_afford(n) with n >= 0 returns false, whatever start_category and    *)
(* spend calls come in between.                                            *)

\* the pool of a fresh budget after the first k calls of the log
PoolAfter(k) == AllocatedBefore(k + 1) - SpentBefore(k + 1)

\* call i of the log is a spend that takes the pool below zero
DrivesNegative(i) ==
    /\ log[i].op = "spend"
    /\ PoolAfter(i - 1) >= 0
    /\ PoolAfter(i) < 0

C21_NegativePoolFailsEveryLaterCheck ==
    entry = "PooledTokenBudget" =>
        \A i \in 1..Len(log), j \in 1..Len(log) :
            (i < j /\ DrivesNegative(i) /\ log[j].op = "can_afford"
                   /\ log[j].count >= 0)
                => log[j].failed

(* C21 amended: once a spend has made the pool negative, a later           *)
(* can_afford(n) with n >= 0 returns false after every sequence of spend   *)
(* calls of non-negative counts and of start_category calls whose          *)
(* allocations add up to less than the debt the spend left; allocations    *)
(* that make up the debt and n more make can_afford(n) return true.        *)
C21_NegativePoolFailsUntilReplenished ==
    entry = "PooledTokenBudget" =>
        \A i \in 1..Len(log), j \in 1..Len(log) :
            (i < j /\ DrivesNegative(i) /\ log[j].op = "can_afford"
                   /\ log[j].count >= 0)
                => /\ (AllocatedBefore(j) - AllocatedBefore(i) < -PoolAfter(i))
                          => log[j].failed
                   /\ log[j].failed <=> PoolAfter(j) < log[j].count

\* a debt of two, a start_category that pays one of it back, a refused
\* can_afford(0)
C21_Witness ==
    /\ entry = "PooledTokenBudget"
    /\ Len(log) >= 3
    /\ DrivesNegative(1)
    /\ PoolAfter(1) = -2
    /\ log[2].op = "start_category"
    /\ LimitsAllocation(log[2].category) = 1
    /\ log[3].op = "can_afford"
    /\ log[3].count = 0
    /\ log[3].failed

----------------------------------------------------------------------------
(* C22: _run_ctags called with a category other than SOURCE raises before  *)
(* the command is built or the tagging tool launched, whatever the files,  *)
(* the start index and the output the tool would print: no launch is       *)
(* logged, nothing is returned and no ProcessedFile is produced.           *)
C22_NonSourceCategoryRaises ==
    (entry = "_run_ctags" /\ arg_category # SOURCE /\ pc # "run_ctags") =>
        /\ pc = "raised"
        /\ log = <<>>
        /\ run_result = NoResult
        /\ run_result.files = <<>>

\* the call refused for MANIFEST although the tool would have printed a tag
C22_Witness ==
    /\ entry = "_run_ctags"
    /\ arg_category = MANIFEST
    /\ pc = "raised"
    /\ stdout_lines # <<>>
    /\ IsValidTag(stdout_lines[1])

----------------------------------------------------------------------------
(* C23: categorize_files returns a mapping with a key for every member of  *)
(* FileCategory, empty lists included; the list of a category holds the    *)
(* FileMetadata of exactly the input paths calculate_significance assigns  *)
(* to it, in input order, so that every input position is in exactly one   *)
(* list and the lengths add up to the number of input paths.               *)

\* what calculate_significance makes of each input path, in input order
InputMetas ==
    [k \in 1..Len(arg_file_paths) |->
        CalculateSignificance(arg_file_paths[k], arg_language)]

RECURSIVE OfCategory(_, _)
\* the metadata of the category, in the order of the list
OfCategory(metas, category) ==
    IF metas = <<>> THEN <<>>
    ELSE IF Head(metas).category = category
         THEN <<Head(metas)>> \o OfCategory(Tail(metas), category)
         ELSE OfCategory(Tail(metas), category)

RECURSIVE SumLengths(_, _)
SumLengths(mapping, keys) ==
    IF keys = {} THEN 0
    ELSE LET k == CHOOSE x \in keys : TRUE
         IN Len(mapping[k]) + SumLengths(mapping, keys \ {k})

C23_EveryPathInItsCategory ==
    (entry = "categorize_files" /\ pc = "done") =>
        LET metas == InputMetas IN
        /\ DOMAIN files_by_category =
               {CONTEXT, MANIFEST, SIGNAL, SOURCE, CHAPTER_FILE, UNKNOWN}
        /\ \A category \in DOMAIN files_by_category :
              files_by_category[category] = OfCategory(metas, category)
        /\ \A k \in 1..Len(metas) :
              Cardinality({c \in DOMAIN files_by_category :
                              \E a \in 1..Len(files_by_category[c]) :
                                  files_by_category[c][a] = metas[k]}) = 1
        /\ SumLengths(files_by_category, DOMAIN files_by_category)
               = Len(arg_file_paths)

\* three paths of three categories, the first and the last of them in one
\* list, and lists that stay empty
C23_Witness ==
    /\ entry = "categorize_files"
    /\ pc = "done"
    /\ Len(arg_file_paths) = 3
    /\ Len(files_by_category[SOURCE]) = 2
    /\ files_by_category[SOURCE][1].file_path = <<"src", "utils.py">>
    /\ files_by_category[SOURCE][2].file_path = <<"utils.py">>
    /\ Len(files_by_category[CONTEXT]) = 1
    /\ arg_file_paths[2] = PurePath(<<>>, "README", ".md")
    /\ files_by_category[UNKNOWN] = <<>>
    /\ files_by_category[CHAPTER_FILE] = <<>>

----------------------------------------------------------------------------
(* C24: when a read of the tagger's standard output yields the empty       *)
(* string, _run_ctags stops reading and returns None for the file list     *)
(* together with start plus the number of path groups begun before that    *)
(* read; the groups parsed earlier in the batch are not returned, and the  *)
(* lines after the empty string are not read.                              *)

\* the positions of the lines that are the empty string
EofPositions(lines) == {i \in 1..Len(lines) : lines[i].shape = "eof"}

\* the first of them
FirstEof(lines) ==
    CHOOSE i \in EofPositions(lines) : \A j \in EofPositions(lines) : i <= j

\* the path groups begun by the lines before position i
GroupsBegunBefore(lines, i) ==
    Cardinality(RunStarts(SelectSeq(SubSeq(lines, 1, i - 1), IsValidTag)))

C24_EmptyReadReturnsNone ==
    (entry = "_run_ctags" /\ pc = "done" /\ ~SubprocessFailed
        /\ EofPositions(stdout_lines) # {}) =>
        /\ ~run_result.ok
        /\ run_result.files = <<>>
        /\ run_result.next =
               start + GroupsBegunBefore(stdout_lines, FirstEof(stdout_lines))

\* two groups begun and one of them closed when the empty string is read
C24_Witness ==
    /\ entry = "_run_ctags"
    /\ pc = "done"
    /\ ~SubprocessFailed
    /\ Len(stdout_lines) = 3
    /\ IsValidTag(stdout_lines[1])
    /\ IsValidTag(stdout_lines[2])
    /\ stdout_lines[1].path # stdout_lines[2].path
    /\ stdout_lines[3].shape = "eof"
    /\ ~run_result.ok
    /\ run_result.next = start + 2

----------------------------------------------------------------------------
(* C25: over every sequence of calls on a RichProgressDisplay, on_start,   *)
(* on_update and on_complete raise RuntimeError when no __enter__ came     *)
(* before, and on_update and on_complete raise RuntimeError when no        *)
(* on_start came before; a task of the underlying progress is created or   *)
(* updated only in a step that follows an __enter__, and updated only in   *)
(* a step that follows an on_start.                                        *)

\* some call of the operation is among the first k calls of the log
CalledWithin(op, k) == \E j \in 1..k : log[j].op = op

\* the tasks of the rich Progress objects, per Progress
TasksOf(d) == [p \in 1..Len(d.progresses) |-> d.progresses[p].tasks]

\* the step adds a task to some Progress
TaskCreated ==
    \E p \in 1..Len(display.progresses) :
        Len(TasksOf(display')[p]) > Len(TasksOf(display)[p])

\* the step changes a task some Progress held already
TaskUpdated ==
    \E p \in 1..Len(display.progresses) :
        \E t \in 1..Len(TasksOf(display)[p]) :
            TasksOf(display')[p][t] # TasksOf(display)[p][t]

RaisesWithoutEnterOrStart ==
    entry = "RichProgressDisplay" =>
        \A k \in 1..Len(log) :
            /\ (log[k].op \in {"on_start", "on_update", "on_complete"}
                    /\ ~CalledWithin("__enter__", k - 1))
                  => log[k].exception = "RuntimeError"
            /\ (log[k].op \in {"on_update", "on_complete"}
                    /\ ~CalledWithin("on_start", k - 1))
                  => log[k].exception = "RuntimeError"

C25_DisplayLifecycleEnforced ==
    /\ []RaisesWithoutEnterOrStart
    /\ [][/\ (TaskCreated \/ TaskUpdated)
                 => CalledWithin("__enter__", Len(log))
          /\ TaskUpdated => CalledWithin("on_start", Len(log))]_vars

\* on_start refused before __enter__, on_update refused before on_start,
\* then the task created and updated
C25_Witness ==
    /\ entry = "RichProgressDisplay"
    /\ Len(log) = 5
    /\ log[1] = DisplayEvent("on_start", "RuntimeError")
    /\ log[2] = DisplayEvent("__enter__", None)
    /\ log[3] = DisplayEvent("on_update", "RuntimeError")
    /\ log[4] = DisplayEvent("on_start", None)
    /\ log[5] = DisplayEvent("on_complete", None)
    /\ display.progresses[1].tasks[1].completed = 2

----------------------------------------------------------------------------
(* C26: all along a process_files run that begins with a fresh budget, the *)
(* pool is never negative and equals the allocations of the categories     *)
(* started so far, added up, less the token counts of the files kept so    *)
(* far (those of the categories stored and of the category in progress).   *)

\* the token counts of the files kept so far
KeptSoFar ==
    SumKept(processing_order)
        + (IF status.category \in DOMAIN status_results THEN 0
           ELSE SumTokens(status.files))

C26_PoolIsAllocatedLessKept ==
    entry = "process_files" =>
        /\ pool >= 0
        /\ pool = SumAllocations(StartedCategories) - KeptSoFar

\* a finished run that started three categories, kept files, refused one
\* and left tokens in the pool
C26_Witness ==
    /\ entry = "process_files"
    /\ pc = "done"
    /\ Len(StartedCategories) >= 3
    /\ Unaffordable
    /\ KeptSoFar > 0
    /\ pool > 0
    /\ pool < SumAllocations(StartedCategories)

----------------------------------------------------------------------------
(* C27: the SOURCE result of extract_ctags_for_source_files holds at most  *)
(* one ProcessedFile per source path, and tokens are spent at most once    *)
(* per source file: no two appended files, and so no two spends, are for   *)
(* one path.                                                               *)

\* the positions of the log at which a file is appended to the status
AppendPositions == {k \in 1..Len(log) : log[k].op = "append"}

C27_OneRecordPerSourcePath ==
    entry = "extract_ctags_for_source_files" =>
        /\ \A a, b \in 1..Len(status.files) :
              a # b => status.files[a].path # status.files[b].path
        /\ \A j, k \in AppendPositions :
              j # k => log[j].path # log[k].path

----------------------------------------------------------------------------
(* C28: extract_ctags_for_source_files terminates for every file list and  *)
(* every tagger output.  Every _run_ctags call either ends the loop or     *)
(* leaves a start index strictly above the one it was given, the tagging   *)
(* tool is launched at most max(1, len(files)) times, and no run goes on   *)
(* for ever: a measure that is a natural number, and zero only when the    *)
(* call has ended, decreases with every step, and a next statement exists  *)
(* as long as the call has not ended.                                      *)

\* the launches of the tagging tool so far
TaggerCalls == Cardinality({k \in 1..Len(log) : log[k].op = "run_ctags"})

\* the step is one _run_ctags call of the loop
IsBatchStep == pc = "ctags_batch" /\ pc' # "ctags_batch"

\* the files of the list at and behind the start index
FilesLeft == IF Len(files) > start THEN Len(files) - start ELSE 0

\* more steps than one iteration of the loop takes after its _run_ctags call
IterationSteps == BatchLimit + 3

\* the measure: the iterations still possible, then the steps left in the
\* current one
Measure ==
    CASE pc \in {"done", "raised"} -> 0
      [] pc = "ctags_complete"     -> 1
      [] pc = "ctags_batch"        -> 3 + FilesLeft * IterationSteps
      [] pc = "ctags_batch_end"    -> 4 + FilesLeft * IterationSteps
      [] pc = "ctags_files"        ->
             5 + FilesLeft * IterationSteps
               + (Len(processed_files) - processed_index)
      [] pc = "ctags_start"        -> 4 + Len(files) * IterationSteps

\* the statement the call is at can be executed
HasNextStatement ==
    \/ pc \in {"ctags_start", "ctags_batch", "ctags_batch_end",
               "ctags_complete"}
    \/ pc = "ctags_files" /\ processed_index \in 1..Len(processed_files)

C28_ExtractionTerminates ==
    /\ [](/\ Measure \in Nat
          /\ Measure = 0 <=> pc \in {"done", "raised"}
          /\ Measure > 0 => HasNextStatement
          /\ TaggerCalls <= IF Len(files) > 1 THEN Len(files) ELSE 1)
    /\ [][Measure' < Measure]_vars
    /\ [][IsBatchStep =>
             \/ pc' \in {"ctags_complete", "raised"}
             \/ start' > start]_vars

\* a finished call that launched the tool once per file of a list of three
C28_Witness ==
    /\ entry = "extract_ctags_for_source_files"
    /\ pc = "done"
    /\ Len(files) = 3
    /\ TaggerCalls = 3

----------------------------------------------------------------------------
(* C29: a stop on an unaffordable file ends only the current category.     *)
(* In a finished process_files run, for every refused can_afford and every *)
(* later category that has files: the category is started; its             *)
(* start_category leaves the leftover pool plus its allocation; each file  *)
(* it reads or produces is kept exactly when the pool affords it, and its  *)
(* first refused file is its last; a readable category keeps the longest   *)
(* leading part of its sorted list that the pool affords file by file.     *)

\* the position of a category in the processing order
OrderIndex(category) ==
    CHOOSE i \in 1..Len(processing_order) : processing_order[i] = category

\* the positions of the log at which can_afford answered False
Refusals == {k \in 1..Len(log) : log[k].op = "can_afford" /\ log[k].failed}

\* the categories with files that come after the category in the order
LaterCategories(category) ==
    {c \in {CONTEXT, MANIFEST, SIGNAL, SOURCE} :
        OrderIndex(c) > OrderIndex(category) /\ HasFiles(c)}

\* the positions of the start_category calls for the category
StartsOf(category) ==
    {j \in 1..Len(log) : log[j].op = "start_category"
                            /\ log[j].category = category}

RECURSIVE CategoryCost(_, _)
\* the tokens of the first n files of the category's list
CategoryCost(category, n) ==
    IF n = 0 THEN 0
    ELSE CategoryCost(category, n - 1)
         + TokenCount(disk[FullPath(Root,
               files_by_category[category][n].file_path)].content)

\* how many leading files of the category's list a pool affords
AffordedPrefix(category, p) ==
    CHOOSE n \in 0..Len(files_by_category[category]) :
        /\ CategoryCost(category, n) <= p
        /\ \/ n = Len(files_by_category[category])
           \/ CategoryCost(category, n + 1) > p

\* the record of the n-th file of a readable category
ReadableRecord(category, n) ==
    LET file_path == files_by_category[category][n].file_path
    IN ProcessedFile(PathStr(file_path), category,
                     disk[FullPath(Root, file_path)].content)

\* the budget calls of a category started at position j of the log: a file
\* is kept exactly when the pool affords it, and nothing follows a refusal
KeepsWhatThePoolAffords(category, j) ==
    \A m \in (j + 1)..Len(log) :
        (log[m].category = category /\ log[m].op = "can_afford") =>
            /\ log[m].failed <=> PoolAfter(m - 1) < log[m].count
            /\ ~log[m].failed =>
                  /\ m + 2 <= Len(log)
                  /\ log[m + 1] = SpendEvent(category, log[m].count)
                  /\ log[m + 2].op = "append"
                  /\ log[m + 2].category = category
            /\ log[m].failed =>
                  \A n \in (m + 1)..Len(log) :
                      log[n].category = category =>
                          log[n].op \notin {"can_afford", "spend", "append"}

C29_StopEndsOnlyItsCategory ==
    (entry = "process_files" /\ pc = "done") =>
        \A k \in Refusals : \A c \in LaterCategories(log[k].category) :
            /\ Cardinality(StartsOf(c)) = 1
            /\ c \in DOMAIN status_results
            /\ \A j \in StartsOf(c) :
                  /\ j > k
                  /\ log[j].count = PoolAfter(j - 1) + LimitsAllocation(c)
                  /\ KeepsWhatThePoolAffords(c, j)
                  /\ c # SOURCE =>
                        status_results[c].files =
                            [n \in 1..AffordedPrefix(c, log[j].count) |->
                                ReadableRecord(c, n)]

\* CONTEXT stops on its second file; MANIFEST keeps a file and stops on its
\* second one; SOURCE, started later still, keeps a file
C29_Witness ==
    /\ entry = "process_files"
    /\ pc = "done"
    /\ \E k \in Refusals : log[k].category = CONTEXT
    /\ \E k \in Refusals : log[k].category = MANIFEST
    /\ status_results[CONTEXT].files # <<>>
    /\ status_results[MANIFEST].files # <<>>
    /\ Len(files_by_category[MANIFEST]) = 2
    /\ SOURCE \in DOMAIN status_results
    /\ status_results[SOURCE].files # <<>>

----------------------------------------------------------------------------
(* C30: process_files changes no field of any FileMetadata and adds or     *)
(* removes no element of any input list. At every point of a call each     *)
(* list of the mapping holds the records it held when the call began, each *)
(* as often as then; the UNKNOWN list, every empty list and every list of  *)
(* a category not yet reached are exactly as they were; a list that        *)
(* differs from its input is the sorted input of a non-empty CONTEXT,      *)
(* MANIFEST, SIGNAL or SOURCE list.                                        *)
Reordered(category) ==
    files_by_category[category] # input_mapping[category]

C30_OnlyReordersProcessedLists ==
    entry = "process_files" =>
        /\ DOMAIN files_by_category = DOMAIN input_mapping
        /\ \A c \in DOMAIN input_mapping :
              /\ IsPermutation(files_by_category[c], input_mapping[c])
              /\ (c = UNKNOWN \/ input_mapping[c] = <<>>) => ~Reordered(c)
              /\ Reordered(c) =>
                    /\ c \in {CONTEXT, MANIFEST, SIGNAL, SOURCE}
                    /\ OrderIndex(c) <= category_index
                    /\ Ordered(files_by_category[c])

\* a finished call that reordered the lists of two categories and left the
\* UNKNOWN list alone
C30_Witness ==
    /\ entry = "process_files"
    /\ pc = "done"
    /\ Cardinality({c \in DOMAIN input_mapping : Reordered(c)}) >= 2
    /\ Len(input_mapping[UNKNOWN]) = 1
    /\ files_by_category[UNKNOWN] = input_mapping[UNKNOWN]

====
